---- MODULE Spec2Model ----
(***************************************************************************)
(* A model of eslint-plugin-use-client: the shared analysis caches of      *)
(* utils.ts, the file system they observe, and the rules that decide       *)
(* whether a file needs the "use client" directive.                        *)
(*                                                                         *)
(* A source file is modelled by the nodes ESLint visits, in visiting       *)
(* order, and by its comments; its text (what getFileAST reads and scans)  *)
(* is rendered from those nodes.                                           *)
(***************************************************************************)
EXTENDS Integers, Sequences, FiniteSets, TLC

\* ------------------------------------------------------------------ bounds
\* The number of file-system events (writes, removals, permission changes)
\* one behaviour may contain.
MaxEvents == 1

\* The number of statements of a file given to consistent-use-client-placement.
MaxStatements == 3

\* The outcomes of file-system calls that differ from the file's state at
\* one time.
MaxFaults == 2

\* ------------------------------------------------------------------ tables
clientOnlyPackages ==
    { "react-dom", "@radix-ui/", "@headlessui/", "framer-motion", "react-spring",
      "react-modal", "react-select", "react-table", "react-hook-form", "react-query",
      "swr", "react-dnd", "react-draggable", "react-resizable", "react-beautiful-dnd" }

serverSafeHooks ==
    { "useId", "useMemo", "useCallback", "use", "useContext", "useDebugValue",
      "useReducer", "useRef" }

clientOnlyHooks ==
    { "useEffect", "useLayoutEffect", "useState", "useSyncExternalStore",
      "useTransition", "useImperativeHandle", "useDeferredValue", "useInsertionEffect" }

browserAPIs ==
    { "window", "document", "navigator", "localStorage", "sessionStorage", "history",
      "location", "alert", "confirm", "prompt", "fetch", "XMLHttpRequest", "WebSocket",
      "IntersectionObserver", "ResizeObserver", "MutationObserver" }

\* ------------------------------------------------------------ JS strings
Undefined == "<undefined>"
Null == "<null>"

StartsWith(s, prefix) ==
    Len(prefix) <= Len(s) /\ SubSeq(s, 1, Len(prefix)) = prefix

\* String.prototype.includes
Includes(s, sub) ==
    \E i \in 1..(Len(s) - Len(sub) + 1) : SubSeq(s, i, i + Len(sub) - 1) = sub

\* s.substring(i - 1, j): the characters i..j of s, as many as there are
Slice(s, i, j) ==
    IF i > Len(s) \/ j < i THEN "" ELSE SubSeq(s, i, IF j > Len(s) THEN Len(s) ELSE j)

\* s.charAt(i), i counted from 0 as in JavaScript
CharAt(s, i) == IF i + 1 <= Len(s) THEN SubSeq(s, i + 1, i + 1) ELSE ""

LowerCaseLetters ==
    { "a", "b", "c", "d", "e", "f", "g", "h", "i", "j", "k", "l", "m",
      "n", "o", "p", "q", "r", "s", "t", "u", "v", "w", "x", "y", "z" }

\* ch === ch.toUpperCase() for a one-character string: true of everything
\* but the lower-case letters.
IsOwnUpperCase(ch) == ch \notin LowerCaseLetters

RECURSIVE TrimStart(_)
TrimStart(s) ==
    IF Len(s) > 0 /\ SubSeq(s, 1, 1) = " " THEN TrimStart(SubSeq(s, 2, Len(s))) ELSE s

RECURSIVE TrimEnd(_)
TrimEnd(s) ==
    IF Len(s) > 0 /\ SubSeq(s, Len(s), Len(s)) = " "
    THEN TrimEnd(SubSeq(s, 1, Len(s) - 1))
    ELSE s

\* String.prototype.trim
Trim(s) == TrimEnd(TrimStart(s))

Range(seq) == { seq[i] : i \in 1..Len(seq) }

\* ------------------------------------------------------------- AST nodes
\* A string-literal statement such as 'use client'; (top: a statement of
\* Program.body).
ExprStmt(value, quote, top) ==
    [ type |-> "ExpressionStatement", value |-> value, quote |-> quote, top |-> top ]

\* callee(...), the callee an identifier; calleeSymbol is what the type
\* checker's getSymbolAtLocation gives for it ("Value": a symbol with
\* SymbolFlags.Value, "Type", or "None"); parent is the type of the node
\* that holds the call.
Call(callee, calleeSymbol, parent) ==
    [ type |-> "CallExpression", callee |-> callee, calleeSymbol |-> calleeSymbol,
      parent |-> parent ]

Ident(name, symbol) ==
    [ type |-> "Identifier", name |-> name, symbol |-> symbol ]

\* object.property, both identifiers, each with its symbol.
Member(object, objectSymbol, property, propertySymbol) ==
    [ type |-> "MemberExpression", object |-> object, objectSymbol |-> objectSymbol,
      property |-> property, propertySymbol |-> propertySymbol ]

JSXAttr(name) == [ type |-> "JSXAttribute", name |-> name ]

\* if (left operator right) ..., operands being "typeof window", a string
\* literal, or something else.
IfStmt(left, operator, right, top) ==
    [ type |-> "IfStatement", left |-> left, operator |-> operator, right |-> right,
      top |-> top ]

TypeofWindow == [ kind |-> "typeof", name |-> "window" ]
StrLit(v) == [ kind |-> "literal", value |-> v ]

Specifier(imported, importKind) ==
    [ type |-> "ImportSpecifier", imported |-> imported, importKind |-> importKind ]

DefaultSpecifier(local) ==
    [ type |-> "ImportDefaultSpecifier", imported |-> local, importKind |-> "value" ]

Import(source, specifiers, importKind) ==
    [ type |-> "ImportDeclaration", source |-> source, specifiers |-> specifiers,
      importKind |-> importKind ]

DynamicImport(source) == [ type |-> "ImportExpression", source |-> source ]

\* export ... (source = Null) or export { x } from source
ExportNamed(source) == [ type |-> "ExportNamedDeclaration", source |-> source ]

ExportDefault == [ type |-> "ExportDefaultDeclaration" ]

ExportAll(source) == [ type |-> "ExportAllDeclaration", source |-> source ]

Comment(style, value) == [ style |-> style, value |-> value ]

\* A source file: its nodes in source order, and its comments.
File(body, comments) == [ body |-> body, comments |-> comments ]

\* The traversal: a node is visited before the identifiers it holds.
Children(n) ==
    CASE n.type = "CallExpression" -> << Ident(n.callee, n.calleeSymbol) >>
      [] n.type = "MemberExpression" ->
            << Ident(n.object, n.objectSymbol), Ident(n.property, n.propertySymbol) >>
      [] OTHER -> << >>

RECURSIVE Traverse(_)
Traverse(body) ==
    IF body = << >> THEN << >>
    ELSE << Head(body) >> \o Children(Head(body)) \o Traverse(Tail(body))

\* ------------------------------------------------------------ source text
RenderOperand(o) ==
    IF o.kind = "typeof" THEN "typeof " \o o.name
    ELSE IF o.kind = "literal" THEN "'" \o o.value \o "'"
    ELSE o.name

RECURSIVE RenderSpecifiers(_)
RenderSpecifiers(specs) ==
    IF specs = << >> THEN ""
    ELSE (IF Head(specs).importKind = "type" THEN "type " ELSE "")
         \o Head(specs).imported
         \o (IF Len(specs) > 1 THEN ", " ELSE "")
         \o RenderSpecifiers(Tail(specs))

Render(n) ==
    CASE n.type = "ExpressionStatement" -> n.quote \o n.value \o n.quote \o ";"
      [] n.type = "CallExpression" -> n.callee \o "();"
      [] n.type = "Identifier" -> n.name \o ";"
      [] n.type = "MemberExpression" -> n.object \o "." \o n.property \o ";"
      [] n.type = "JSXAttribute" -> "<a " \o n.name \o "={f}/>;"
      [] n.type = "IfStatement" ->
            "if (" \o RenderOperand(n.left) \o " " \o n.operator \o " "
                   \o RenderOperand(n.right) \o ") {}"
      [] n.type = "ImportDeclaration" ->
            "import " \o (IF n.importKind = "type" THEN "type " ELSE "")
                      \o "{ " \o RenderSpecifiers(n.specifiers) \o " } from '"
                      \o n.source \o "';"
      [] n.type = "ImportExpression" -> "import('" \o n.source \o "');"
      [] n.type = "ExportNamedDeclaration" ->
            IF n.source = Null THEN "export {};"
            ELSE "export { x } from '" \o n.source \o "';"
      [] n.type = "ExportDefaultDeclaration" -> "export default 0;"
      [] n.type = "ExportAllDeclaration" -> "export * from '" \o n.source \o "';"

RenderComment(c) ==
    IF c.style = "Line" THEN "//" \o c.value ELSE "/*" \o c.value \o "*/"

RECURSIVE RenderAll(_, _)
RenderAll(comments, body) ==
    IF comments # << >>
    THEN RenderComment(Head(comments)) \o "\n" \o RenderAll(Tail(comments), body)
    ELSE IF body # << >>
    THEN Render(Head(body)) \o "\n" \o RenderAll(comments, Tail(body))
    ELSE ""

\* The text of a file, as readFileSync returns it.
Text(f) == RenderAll(f.comments, f.body)

\* ------------------------------------------------------------------ state
Paths == { "F", "M1", "M2" }

VARIABLES
    files,                      \* the file system: path -> [exists, readable, mtime, content,
                                \*   fixed, faults]
    clientSideDependencyCache,  \* Map<string, boolean>
    fileTimestamps,             \* Map<string, number>
    astCache,                   \* Map<string, FileAnalysisResult>
    config,                     \* the rule in use and its options, fixed per process
    events,                     \* file-system events so far
    run                         \* what the last analysis did and reported

vars == << files, clientSideDependencyCache, fileTimestamps, astCache, config, events, run >>

\* Map.set and Map.delete on a function whose domain is the set of keys.
MapSet(m, k, v) == (k :> v) @@ m
MapDelete(m, k) == [ q \in (DOMAIN m) \ {k} |-> m[q] ]

existsSync(p) == files[p].exists

\* What a call of the file system at one place of the code does for the path
\* p apart from what the file's state says: "throws", "fails" (existsSync
\* returns false: the file is out of reach for this call), or "ok".
\* files[p].faults holds the pairs << place, outcome >> in force.
Fault(site, p) ==
    IF << site, "throws" >> \in files[p].faults THEN "throws"
    ELSE IF << site, "fails" >> \in files[p].faults THEN "fails"
    ELSE "ok"

\* An exception leaves the function, and a catch block receives it.
Throw(c) == [ c EXCEPT !.thrown = TRUE ]
Caught(c) == [ c EXCEPT !.thrown = FALSE ]

\* ---------------------------------------------------------------- utils.ts
UpperCaseLetters ==
    { "A", "B", "C", "D", "E", "F", "G", "H", "I", "J", "K", "L", "M",
      "N", "O", "P", "Q", "R", "S", "T", "U", "V", "W", "X", "Y", "Z" }

Digits == { "0", "1", "2", "3", "4", "5", "6", "7", "8", "9" }

\* \w of a regular expression
IsWordChar(ch) == ch \in LowerCaseLetters \cup UpperCaseLetters \cup Digits \cup { "_" }

\* The maximal runs of word characters of s from position i on, cur being the
\* run in progress: word is one of them exactly when /\bword\b/ matches s.
RECURSIVE WordsFrom(_, _, _)
WordsFrom(s, i, cur) ==
    IF i > Len(s) THEN { cur } \ { "" }
    ELSE IF IsWordChar(SubSeq(s, i, i))
         THEN WordsFrom(s, i + 1, cur \o SubSeq(s, i, i))
         ELSE ({ cur } \ { "" }) \cup WordsFrom(s, i + 1, "")

WordsOf(s) == WordsFrom(s, 1, "")

\* The lines of s ('.' of a regular expression does not cross a line end).
RECURSIVE LinesFrom(_, _, _)
LinesFrom(s, i, cur) ==
    IF i > Len(s) THEN { cur }
    ELSE IF SubSeq(s, i, i) = "\n"
         THEN { cur } \cup LinesFrom(s, i + 1, "")
         ELSE LinesFrom(s, i + 1, cur \o SubSeq(s, i, i))

\* /\bwindow\b.*=.*this\b/ and /\bdocument\b.*=.*this\.\w+/ on one line:
\* name as a word, an = after it, and after that "this" (followed by
\* suffix and then by a word character when suffix is ".", by a word
\* boundary otherwise).
AssignsThis(line, name, dotted) ==
    \E i \in 1..Len(line) :
        /\ Slice(line, i, i + Len(name) - 1) = name
        /\ (i = 1 \/ ~IsWordChar(SubSeq(line, i - 1, i - 1)))
        /\ ~IsWordChar(CharAt(line, i + Len(name) - 1))
        /\ \E j \in (i + Len(name))..Len(line) :
              /\ SubSeq(line, j, j) = "="
              /\ \E k \in (j + 1)..Len(line) :
                    /\ Slice(line, k, k + 3) = "this"
                    /\ IF dotted
                       THEN /\ CharAt(line, k + 3) = "."
                            /\ IsWordChar(CharAt(line, k + 4))
                       ELSE ~IsWordChar(CharAt(line, k + 3))

\* /typeof\s+window\s*!==?\s*['"]undefined['"]/ and its mirror image, for the
\* spellings with single spaces around the operator.
TypeofWindowSpellings ==
    { l \o " " \o op \o " " \o r :
        l \in { "typeof window" }, op \in { "!==", "!=" },
        r \in { "'undefined'", "\"undefined\"" } }
    \cup
    { l \o " " \o op \o " " \o r :
        l \in { "'undefined'", "\"undefined\"" }, op \in { "!==", "!=" },
        r \in { "typeof window" } }

mightBeCompiledClientCode(content) ==
    \/ \E line \in LinesFrom(content, 1, "") : AssignsThis(line, "window", FALSE)
    \/ \E line \in LinesFrom(content, 1, "") : AssignsThis(line, "document", TRUE)
    \/ \E sp \in TypeofWindowSpellings : Includes(content, sp)

isClientDetectionCondition(node) ==
    /\ node.operator \in { "!==", "!=" }
    /\ \/ (node.left = TypeofWindow /\ node.right = StrLit("undefined"))
       \/ (node.left = StrLit("undefined") /\ node.right = TypeofWindow)

isHookCall(node) ==
    /\ node.type = "CallExpression"
    /\ StartsWith(node.callee, "use")
    /\ Len(node.callee) > 3
    /\ IsOwnUpperCase(CharAt(node.callee, 3))

\* A boolean | undefined field of a FileAnalysisResult.
Bool(b) == IF b THEN "true" ELSE "false"

ErrorResult == [ error |-> "true", hasUseClient |-> Undefined, hasClientCode |-> Undefined ]

\* The operators below thread the analysis context c through the calls of the
\* source: c.cache, c.ts and c.ast are the three module-level maps, c.reads
\* the files read so far, and the other fields the rule's own variables. Each
\* returns [c |-> the context after the call, ret |-> what the call returns].
\* hasFileChanged without fileTimestamps.set for the change it reports.
hasFileChanged_withoutSet(c, filePath) ==
    IF Fault("hasFileChanged.existsSync", filePath) # "ok" \/ ~existsSync(filePath)
    THEN [ c |-> c, ret |-> TRUE ]
    ELSE IF Fault("hasFileChanged.statSync", filePath) # "ok"
    THEN [ c |-> c, ret |-> TRUE ]
    ELSE [ c |-> c,
           ret |-> filePath \notin DOMAIN c.ts \/ files[filePath].mtime > c.ts[filePath] ]

hasFileChanged(c, filePath) ==
    IF Fault("hasFileChanged.existsSync", filePath) # "ok" \/ ~existsSync(filePath)
    THEN [ c |-> c, ret |-> TRUE ]
    ELSE IF Fault("hasFileChanged.statSync", filePath) # "ok"
    THEN [ c |-> c, ret |-> TRUE ]
    ELSE LET lastModified == files[filePath].mtime IN
         IF filePath \notin DOMAIN c.ts \/ lastModified > c.ts[filePath]
         THEN [ c |-> [ c EXCEPT !.ts = MapSet(@, filePath, lastModified) ], ret |-> TRUE ]
         ELSE [ c |-> c, ret |-> FALSE ]

\* The scan of getFileAST over the text it has read.
ScanResult(fileContent) ==
    LET words == WordsOf(fileContent) IN
    [ error |-> Undefined,
      hasUseClient |-> Bool(Includes(fileContent, "'use client'")
                            \/ Includes(fileContent, "\"use client\"")),
      hasClientCode |-> Bool(\/ mightBeCompiledClientCode(fileContent)
                             \/ browserAPIs \cap words # {}
                             \/ clientOnlyHooks \cap words # {}) ]

\* getFileAST once the file has been read: the result is cached and returned.
getFileAST_store(c, filePath, result) ==
    [ c |-> [ c EXCEPT !.ast = MapSet(@, filePath, result),
                       !.reads = @ \cup { filePath } ],
      ret |-> result ]

\* getFileAST past the cache: the try block.
getFileAST_read(c, filePath) ==
    IF Fault("getFileAST.existsSync", filePath) # "ok" \/ ~existsSync(filePath)
    THEN [ c |-> c, ret |-> ErrorResult ]
    ELSE IF Fault("getFileAST.readFileSync", filePath) # "ok" \/ ~files[filePath].readable
    THEN [ c |-> c, ret |-> ErrorResult ]
    ELSE getFileAST_store(c, filePath, ScanResult(Text(files[filePath].content)))

\* getFileAST for a path astCache holds, h being what hasFileChanged gave.
getFileAST_cached(h, filePath) ==
    IF ~h.ret THEN [ c |-> h.c, ret |-> h.c.ast[filePath] ]
    ELSE getFileAST_read(h.c, filePath)

getFileAST(c, filePath) ==
    IF filePath \in DOMAIN c.ast
    THEN getFileAST_cached(hasFileChanged(c, filePath), filePath)
    ELSE getFileAST_read(c, filePath)

\* boolean | null: ret is {} for null, { b } for the boolean b. For a path
\* the cache holds and that exists, h is what hasFileChanged gave.
getClientDependency_cached(h, filePath) ==
    IF h.ret
    THEN [ c |-> [ h.c EXCEPT !.cache = MapDelete(@, filePath) ], ret |-> {} ]
    ELSE [ c |-> h.c, ret |-> { h.c.cache[filePath] } ]

getClientDependency(c, filePath) ==
    IF filePath \in DOMAIN c.cache
    THEN IF Fault("getClientDependency.existsSync", filePath) = "throws"
         THEN [ c |-> Throw(c), ret |-> {} ]
         ELSE IF Fault("getClientDependency.existsSync", filePath) = "fails"
                 \/ ~existsSync(filePath)
         THEN [ c |-> c, ret |-> { c.cache[filePath] } ]
         ELSE getClientDependency_cached(hasFileChanged(c, filePath), filePath)
    ELSE [ c |-> c, ret |-> {} ]

\* setClientDependency without the update of the timestamp.
setClientDependency_withoutTimestamp(c, filePath, isClientSide) ==
    [ c EXCEPT !.cache = MapSet(@, filePath, isClientSide) ]

setClientDependency(c, filePath, isClientSide) ==
    LET c1 == [ c EXCEPT !.cache = MapSet(@, filePath, isClientSide) ] IN
    IF Fault("setClientDependency.existsSync", filePath) = "throws" THEN Throw(c1)
    ELSE IF Fault("setClientDependency.existsSync", filePath) = "fails"
            \/ ~existsSync(filePath)
    THEN c1
    ELSE IF Fault("setClientDependency.statSync", filePath) # "ok"
    THEN [ c1 EXCEPT !.ts = MapDelete(@, filePath) ]
    ELSE [ c1 EXCEPT !.ts = MapSet(@, filePath, files[filePath].mtime) ]

clearCaches(c) ==
    [ c EXCEPT !.cache = [ p \in {} |-> FALSE ], !.ts = [ p \in {} |-> 0 ],
               !.ast = [ p \in {} |-> ErrorResult ] ]

\* ------------------------------------- rules/enforce-use-client-advanced.ts
defaultConfig ==
    [ clientModules |-> {}, serverModules |-> {}, sharedModules |-> {},
      clientOnlyHooks |-> {}, serverSafeHooks |-> {} ]

\* loadModuleCategories(): what use-client-config.json holds
\* (config.useClientConfig, when the process has such a file) if it has the
\* five lists, the defaults otherwise.
loadModuleCategories ==
    IF "useClientConfig" \in DOMAIN config
    THEN IF DOMAIN config.useClientConfig = DOMAIN defaultConfig
         THEN config.useClientConfig
         ELSE defaultConfig
    ELSE defaultConfig

moduleCategories == loadModuleCategories
serverSafeHooksExtended == serverSafeHooks \cup moduleCategories.serverSafeHooks
clientOnlyHooksExtended == clientOnlyHooks \cup moduleCategories.clientOnlyHooks

\* An allowlist maps a module name to [kind |-> "true"] (the value true) or
\* to [kind |-> "array", names |-> the listed export names].
AllowTrue == [ kind |-> "true", names |-> {} ]
AllowArray(names) == [ kind |-> "array", names |-> names ]

isModuleAllowlisted(moduleName) ==
    \/ (moduleName \in DOMAIN config.allowlist /\ config.allowlist[moduleName].kind = "true")
    \/ moduleName \in moduleCategories.serverModules

isExportAllowlisted(moduleName, exportName) ==
    /\ moduleName \in DOMAIN config.allowlist
    /\ LET allowlistValue == config.allowlist[moduleName] IN
       \/ allowlistValue.kind = "true"
       \/ /\ allowlistValue.kind = "array"
          /\ (exportName \in allowlistValue.names \/ "*" \in allowlistValue.names)

isKnownClientOnlyPackage(packageName) ==
    \/ packageName \in moduleCategories.clientModules
    \/ \E prefix \in clientOnlyPackages :
          packageName = prefix \/ StartsWith(packageName, prefix)

\* clientDependencies.push(dep); hasDirectClientAPIs = true
PushDirect(c, dep) ==
    [ c EXCEPT !.clientDependencies = Append(@, dep), !.hasDirectClientAPIs = TRUE ]

\* checkNodeForClientAPIs for a node that is not a hook call.
checkNodeForClientAPIs_other(c, node) ==
    IF node.type = "Identifier" /\ node.name \in browserAPIs /\ node.symbol = "Value"
    THEN [ c |-> PushDirect(c, "Browser API: " \o node.name), ret |-> TRUE ]
    ELSE IF node.type = "MemberExpression" /\ node.object \in browserAPIs
    THEN [ c |-> PushDirect(c, "Browser API: " \o node.object \o "." \o node.property),
           ret |-> TRUE ]
    ELSE IF /\ node.type = "JSXAttribute"
            /\ StartsWith(node.name, "on")
            /\ Len(node.name) > 2
            /\ IsOwnUpperCase(CharAt(node.name, 2))
    THEN [ c |-> PushDirect(c, "JSX event handler: " \o node.name), ret |-> TRUE ]
    ELSE IF node.type = "IfStatement" /\ isClientDetectionCondition(node)
    THEN [ c |-> PushDirect(c, "Client detection condition (typeof window check)"),
           ret |-> TRUE ]
    ELSE [ c |-> c, ret |-> FALSE ]

\* checkNodeForClientAPIs asking the server-safe table before the client-only
\* one.
checkNodeForClientAPIs_serverSafeFirst(c, node) ==
    IF isHookCall(node)
    THEN LET hookName == node.callee IN
         IF hookName \in serverSafeHooksExtended
         THEN [ c |-> c, ret |-> FALSE ]
         ELSE IF hookName \in clientOnlyHooksExtended
         THEN [ c |-> PushDirect(c, "React hook: " \o hookName), ret |-> TRUE ]
         ELSE [ c |-> PushDirect(c, "Unknown hook call: " \o hookName), ret |-> TRUE ]
    ELSE checkNodeForClientAPIs_other(c, node)

checkNodeForClientAPIs(c, node) ==
    IF isHookCall(node)
    THEN LET hookName == node.callee IN
         IF hookName \in clientOnlyHooksExtended
         THEN [ c |-> PushDirect(c, "React hook: " \o hookName), ret |-> TRUE ]
         ELSE IF hookName \in serverSafeHooksExtended
         THEN [ c |-> c, ret |-> FALSE ]
         ELSE [ c |-> PushDirect(c, "Unknown hook call: " \o hookName), ret |-> TRUE ]
    ELSE checkNodeForClientAPIs_other(c, node)


\* resolve(dirname(fileName), moduleSpecifier) with the extensions tried: a
\* relative specifier "./X" names the file X of the one directory modelled.
resolveModulePath(moduleSpecifier) ==
    IF StartsWith(moduleSpecifier, ".") \/ StartsWith(moduleSpecifier, "/")
    THEN LET name == IF StartsWith(moduleSpecifier, "./")
                     THEN Slice(moduleSpecifier, 3, Len(moduleSpecifier))
                     ELSE moduleSpecifier
         IN  IF /\ name \in Paths
                /\ Fault("resolveModulePath.existsSync", name) = "ok"
                /\ existsSync(name)
             THEN name ELSE Null
    ELSE Null

isNodeModule(modulePath) == Includes(modulePath, "node_modules")

\* The record of one use of a verdict for an imported file: from is "cache"
\* when the import visitor took it from clientSideDependencyCache, "analysis"
\* when analyzeModuleForClientDependencies returned it, and "error" when it
\* returned it after getFileAST gave an error record ("caught": after its
\* catch block received an exception; "thrown": it threw). depth is
\* currentTraceDepth as the visitor finds it afterwards.
Traced(c, path, verdict, from) ==
    [ c EXCEPT !.traced = Append(@, [ path |-> path, verdict |-> verdict, from |-> from,
                                      depth |-> c.currentTraceDepth ]) ]

\* The end of the try block of analyzeModuleForClientDependencies, s being
\* the context after setClientDependency(filePath, isClientSide) with
\* currentTraceDepth decremented: the verdict is returned, or the catch block
\* returns false when setClientDependency threw.
analyzeModuleForClientDependencies_set(s, isClientSide) ==
    IF s.thrown THEN [ c |-> Caught(s), ret |-> FALSE, from |-> "caught" ]
    ELSE [ c |-> s, ret |-> isClientSide, from |-> "analysis" ]

\* The try block without the decrement before the return for an error
\* record.
analyzeModuleForClientDependencies_try_keepingDepth(a, filePath) ==
    LET c3 == [ a.c EXCEPT !.currentTraceDepth = @ - 1 ]
        ast == a.ret
    IN  IF ast.hasUseClient = "true"
        THEN analyzeModuleForClientDependencies_set(
                setClientDependency(c3, filePath, TRUE), TRUE)
        ELSE IF ast.hasClientCode = "true"
        THEN analyzeModuleForClientDependencies_set(
                setClientDependency(c3, filePath, TRUE), TRUE)
        ELSE IF ast.error = "true"
        THEN [ c |-> a.c, ret |-> FALSE, from |-> "error" ]
        ELSE analyzeModuleForClientDependencies_set(
                setClientDependency(c3, filePath, FALSE), FALSE)

\* analyzeModuleForClientDependencies from the record a.ret that getFileAST
\* gave: the try block after the call, currentTraceDepth decremented.
analyzeModuleForClientDependencies_try(a, filePath) ==
    LET c3 == [ a.c EXCEPT !.currentTraceDepth = @ - 1 ]
        ast == a.ret
    IN  IF ast.hasUseClient = "true"
        THEN analyzeModuleForClientDependencies_set(
                setClientDependency(c3, filePath, TRUE), TRUE)
        ELSE IF ast.hasClientCode = "true"
        THEN analyzeModuleForClientDependencies_set(
                setClientDependency(c3, filePath, TRUE), TRUE)
        ELSE IF ast.error = "true"
        THEN [ c |-> c3, ret |-> FALSE, from |-> "error" ]
        ELSE analyzeModuleForClientDependencies_set(
                setClientDependency(c3, filePath, FALSE), FALSE)

\* ... from the cachedResult g.ret of a path not yet checked in this run
\* (an exception of getClientDependency leaves the function).
analyzeModuleForClientDependencies_first(g, filePath) ==
    IF g.c.thrown THEN [ c |-> g.c, ret |-> FALSE, from |-> "thrown" ]
    ELSE IF g.ret # {} THEN [ c |-> g.c, ret |-> TRUE \in g.ret, from |-> "analysis" ]
    ELSE analyzeModuleForClientDependencies_try(
            getFileAST([ g.c EXCEPT !.currentTraceDepth = @ + 1 ], filePath), filePath)

\* ... from the cachedResult g.ret of a path already checked in this run.
analyzeModuleForClientDependencies_again(g) ==
    IF g.c.thrown THEN [ c |-> g.c, ret |-> FALSE, from |-> "thrown" ]
    ELSE [ c |-> g.c, ret |-> IF g.ret = {} THEN FALSE ELSE TRUE \in g.ret,
           from |-> "analysis" ]

analyzeModuleForClientDependencies(c, filePath) ==
    IF filePath \in c.filesCheckedInThisRun
    THEN analyzeModuleForClientDependencies_again(getClientDependency(c, filePath))
    ELSE analyzeModuleForClientDependencies_first(
            getClientDependency([ c EXCEPT !.filesCheckedInThisRun = @ \cup { filePath },
                                           !.analysed = Append(@, filePath) ],
                                filePath),
            filePath)

\* The tracing block of the import, dynamic-import and re-export checks.
\* With the verdict a.ret of an analysis, without the try and catch around
\* the block:
traceDependency_uncaught(a, resolvedPath) ==
    [ c |-> Traced(a.c, resolvedPath, a.ret, a.from), ret |-> a.ret ]

\* With the verdict a.ret of an analysis, or the exception it threw, which
\* the catch of the block receives:
traceDependency_analysed(a, resolvedPath) ==
    [ c |-> Traced(Caught(a.c), resolvedPath, a.ret, a.from), ret |-> a.ret ]

\* for a path clientSideDependencyCache holds, h being what hasFileChanged
\* gave:
traceDependency_cached(h, resolvedPath) ==
    IF ~h.ret
    THEN [ c |-> Traced(h.c, resolvedPath, h.c.cache[resolvedPath], "cache"),
           ret |-> h.c.cache[resolvedPath] ]
    ELSE traceDependency_analysed(
            analyzeModuleForClientDependencies(h.c, resolvedPath), resolvedPath)

\* for the path resolveModulePath gave:
traceDependency_resolved(c, resolvedPath) ==
    IF /\ resolvedPath # Null
       /\ ~isNodeModule(resolvedPath)
       /\ resolvedPath \notin c.filesCheckedInThisRun
    THEN IF resolvedPath \in DOMAIN c.cache
         THEN traceDependency_cached(hasFileChanged(c, resolvedPath), resolvedPath)
         ELSE traceDependency_analysed(
                 analyzeModuleForClientDependencies(c, resolvedPath), resolvedPath)
    ELSE [ c |-> c, ret |-> FALSE ]

\* The tracing block with the depth guard traceDepth >= currentTraceDepth: it
\* traces at depth 0.
traceDependency_atDepthZero(c, moduleSpecifier) ==
    IF config.traceDependencies /\ config.traceDepth >= c.currentTraceDepth
    THEN traceDependency_resolved(c, resolveModulePath(moduleSpecifier))
    ELSE [ c |-> c, ret |-> FALSE ]

\* The tracing block the import, dynamic-import and re-export checks share:
\* ret tells whether the module named by moduleSpecifier counts as a client
\* module.
traceDependency(c, moduleSpecifier) ==
    IF config.traceDependencies /\ config.traceDepth > c.currentTraceDepth
    THEN traceDependency_resolved(c, resolveModulePath(moduleSpecifier))
    ELSE [ c |-> c, ret |-> FALSE ]

\* if (t.ret) clientDependencies.push(dep), t being what the tracing block
\* gave; direct tells whether hasDirectClientAPIs is set as well.
PushTraced(t, dep, direct) ==
    IF ~t.ret THEN t.c
    ELSE IF direct THEN PushDirect(t.c, dep)
    ELSE [ t.c EXCEPT !.clientDependencies = Append(@, dep) ]

RECURSIVE checkImportSpecifiers(_, _, _)
checkImportSpecifiers(c, moduleSpecifier, specifiers) ==
    IF specifiers = << >> \/ c.thrown THEN c
    ELSE LET specifier == Head(specifiers) IN
         IF specifier.type # "ImportSpecifier" \/ specifier.importKind = "type"
         THEN checkImportSpecifiers(c, moduleSpecifier, Tail(specifiers))
         ELSE IF isExportAllowlisted(moduleSpecifier, specifier.imported)
         THEN checkImportSpecifiers(c, moduleSpecifier, Tail(specifiers))
         ELSE checkImportSpecifiers(
                 PushTraced(traceDependency(c, moduleSpecifier),
                            "Import from client module: "
                                \o moduleSpecifier \o "." \o specifier.imported,
                            FALSE),
                 moduleSpecifier, Tail(specifiers))

checkImportForClientDependencies(c, node) ==
    LET moduleSpecifier == node.source IN
    IF isModuleAllowlisted(moduleSpecifier) THEN c
    ELSE IF isKnownClientOnlyPackage(moduleSpecifier)
    THEN PushDirect(c, "Import from client-only package: " \o moduleSpecifier)
    ELSE IF node.importKind = "type" THEN c
    ELSE checkImportSpecifiers(c, moduleSpecifier, node.specifiers)

checkDynamicImport(c, node) ==
    LET moduleSpecifier == node.source IN
    IF isModuleAllowlisted(moduleSpecifier) THEN c
    ELSE IF isKnownClientOnlyPackage(moduleSpecifier)
    THEN PushDirect(c, "Dynamic import from client-only package: " \o moduleSpecifier)
    ELSE PushTraced(traceDependency(c, moduleSpecifier),
                    "Dynamic import from client module: " \o moduleSpecifier, TRUE)

checkExportFrom(c, node) ==
    LET sourceValue == node.source IN
    IF isModuleAllowlisted(sourceValue) THEN c
    ELSE IF isKnownClientOnlyPackage(sourceValue)
    THEN PushDirect(c, "Re-export from client-only package: " \o sourceValue)
    ELSE PushTraced(traceDependency(c, sourceValue),
                    "Re-export from client module: " \o sourceValue, TRUE)

isLikelySharedComponent(c) ==
    c.hasExports /\ ~c.hasDirectClientAPIs /\ Len(c.clientDependencies) = 0

\* The context a rule starts a file with: the three shared maps as they
\* are, and the rule's own variables as its Program handler resets them.
Program(fileName) ==
    [ cache |-> clientSideDependencyCache, ts |-> fileTimestamps, ast |-> astCache,
      reads |-> {}, traced |-> << >>, analysed |-> << >>,
      fileName |-> fileName,
      hasUseClientDirective |-> FALSE,
      clientDependencies |-> << >>,
      currentTraceDepth |-> 0,
      hasExports |-> FALSE,
      hasDirectClientAPIs |-> FALSE,
      filesCheckedInThisRun |-> {},
      thrown |-> FALSE,
      reports |-> << >> ]

\* The handler the rule registers for the type of node.
Visit(c, node) ==
    CASE node.type = "ExpressionStatement" ->
            IF node.value = "use client" THEN [ c EXCEPT !.hasUseClientDirective = TRUE ] ELSE c
      [] node.type = "ExportNamedDeclaration" ->
            LET c1 == [ c EXCEPT !.hasExports = TRUE ] IN
            IF node.source # Null THEN checkExportFrom(c1, node) ELSE c1
      [] node.type = "ExportDefaultDeclaration" -> [ c EXCEPT !.hasExports = TRUE ]
      [] node.type \in { "CallExpression", "Identifier", "MemberExpression",
                         "JSXAttribute", "IfStatement" } ->
            checkNodeForClientAPIs(c, node).c
      [] node.type = "ImportDeclaration" -> checkImportForClientDependencies(c, node)
      [] node.type = "ImportExpression" -> checkDynamicImport(c, node)
      [] node.type = "ExportAllDeclaration" -> checkExportFrom(c, node)

Report(messageId, dependency, fix) ==
    [ messageId |-> messageId, dependency |-> dependency, fix |-> fix ]

RECURSIVE ReportEach(_)
ReportEach(deps) ==
    IF deps = << >> THEN << >>
    ELSE << Report("detectedClientDep", Head(deps), FALSE) >> \o ReportEach(Tail(deps))

\* Program:exit reporting the first dependency only.
ProgramExit_firstDependencyOnly(c, comments) ==
    LET needsUseClient == Len(c.clientDependencies) > 0
        c1 == [ c EXCEPT !.cache = MapSet(@, c.fileName, needsUseClient) ]
        hasDisableDirective ==
            \E i \in 1..Len(comments) :
                Includes(Trim(comments[i].value), "check-use-client-disable")
        isShared == isLikelySharedComponent(c1)
    IN  IF needsUseClient /\ ~c1.hasUseClientDirective /\ ~hasDisableDirective
        THEN [ c1 EXCEPT !.reports = << Report("missingUseClient", "", TRUE) >>
                                      \o ReportEach(<< Head(c1.clientDependencies) >>) ]
        ELSE IF isShared
        THEN [ c1 EXCEPT !.reports = << Report("sharedComponent", "", FALSE) >> ]
        ELSE c1

ProgramExit(c, comments) ==
    LET needsUseClient == Len(c.clientDependencies) > 0
        c1 == [ c EXCEPT !.cache = MapSet(@, c.fileName, needsUseClient) ]
        hasDisableDirective ==
            \E i \in 1..Len(comments) :
                Includes(Trim(comments[i].value), "check-use-client-disable")
        isShared == isLikelySharedComponent(c1)
    IN  IF needsUseClient /\ ~c1.hasUseClientDirective /\ ~hasDisableDirective
        THEN [ c1 EXCEPT !.reports = << Report("missingUseClient", "", TRUE) >>
                                      \o ReportEach(c1.clientDependencies) ]
        ELSE IF isShared
        THEN [ c1 EXCEPT !.reports = << Report("sharedComponent", "", FALSE) >> ]
        ELSE c1

RECURSIVE VisitAll(_, _)
VisitAll(c, nodes) ==
    IF nodes = << >> \/ c.thrown THEN c ELSE VisitAll(Visit(c, Head(nodes)), Tail(nodes))

\* Program:exit is reached unless a listener threw.
enforceRule_exit(c, comments) == IF c.thrown THEN c ELSE ProgramExit(c, comments)

\* The rule run over one file, from Program to Program:exit.
enforceRule(fileName) ==
    LET content == files[fileName].content IN
    enforceRule_exit(VisitAll(Program(fileName), Traverse(content.body)), content.comments)

\* ------------------------------------------ rules/use-client-directive.ts
\* (the revision that exports enforceRule and the helpers its tests import)
isExportAllowlisted_ucd(exportName, moduleName) ==
    /\ moduleName \in DOMAIN config.allowlist
    /\ LET allowlistValue == config.allowlist[moduleName] IN
       \/ allowlistValue.kind = "true"
       \/ (allowlistValue.kind = "array" /\ exportName \in allowlistValue.names)

\* require.resolve(moduleSpecifier, { paths: [dirname(fileName)] }): a
\* relative specifier gives the file when it exists, a package name a path
\* under node_modules.
resolveModulePath_ucd(moduleSpecifier) ==
    IF StartsWith(moduleSpecifier, ".") \/ StartsWith(moduleSpecifier, "/")
    THEN resolveModulePath(moduleSpecifier)
    ELSE "node_modules/" \o moduleSpecifier

\* analyzeModuleForClientDependencies from the record a.ret that getFileAST
\* gave: the try block after the call, and finally { currentTraceDepth-- }.
analyzeModuleForClientDependencies_ucd_try(a, filePath) ==
    LET c2 == [ a.c EXCEPT !.currentTraceDepth = @ - 1 ]
        result == a.ret
    IN  IF result.hasClientCode # Undefined
        THEN [ c |-> c2, ret |-> result.hasClientCode = "true", from |-> "analysis" ]
        ELSE IF result.error = "true" THEN [ c |-> c2, ret |-> TRUE, from |-> "error" ]
        ELSE IF result.hasUseClient = "true"
        THEN [ c |-> c2, ret |-> TRUE, from |-> "analysis" ]
        ELSE IF ~existsSync(filePath) \/ ~files[filePath].readable
        THEN [ c |-> c2, ret |-> TRUE, from |-> "error" ]
        ELSE [ c |-> [ c2 EXCEPT !.reads = @ \cup { filePath } ],
               ret |-> mightBeCompiledClientCode(Text(files[filePath].content)),
               from |-> "analysis" ]

analyzeModuleForClientDependencies_ucd(c, filePath) ==
    analyzeModuleForClientDependencies_ucd_try(
        getFileAST([ c EXCEPT !.currentTraceDepth = @ + 1,
                              !.filesCheckedInThisRun = @ \cup { filePath },
                              !.analysed = Append(@, filePath) ],
                   filePath),
        filePath)

\* The tracing block of the import and dynamic-import checks, for a path
\* clientSideDependencyCache holds, h being what hasFileChanged gave:
traceDependency_ucd_cached(h, resolvedPath) ==
    IF ~h.ret
    THEN [ c |-> Traced(h.c, resolvedPath, h.c.cache[resolvedPath], "cache"),
           ret |-> h.c.cache[resolvedPath] ]
    ELSE traceDependency_analysed(
            analyzeModuleForClientDependencies_ucd(h.c, resolvedPath), resolvedPath)

\* The tracing block without the test of filesCheckedInThisRun.
traceDependency_ucd_revisiting(c, resolvedPath) ==
    IF resolvedPath # Null /\ ~isNodeModule(resolvedPath)
    THEN IF resolvedPath \in DOMAIN c.cache
         THEN traceDependency_ucd_cached(hasFileChanged(c, resolvedPath), resolvedPath)
         ELSE traceDependency_analysed(
                 analyzeModuleForClientDependencies_ucd(c, resolvedPath), resolvedPath)
    ELSE [ c |-> c, ret |-> FALSE ]

\* for the path resolveModulePath gave:
traceDependency_ucd_resolved(c, resolvedPath) ==
    IF /\ resolvedPath # Null
       /\ ~isNodeModule(resolvedPath)
       /\ resolvedPath \notin c.filesCheckedInThisRun
    THEN IF resolvedPath \in DOMAIN c.cache
         THEN traceDependency_ucd_cached(hasFileChanged(c, resolvedPath), resolvedPath)
         ELSE traceDependency_analysed(
                 analyzeModuleForClientDependencies_ucd(c, resolvedPath), resolvedPath)
    ELSE [ c |-> c, ret |-> FALSE ]

traceDependency_ucd(c, moduleSpecifier) ==
    IF config.traceDependencies /\ config.traceDepth > c.currentTraceDepth
    THEN traceDependency_ucd_resolved(c, resolveModulePath_ucd(moduleSpecifier))
    ELSE [ c |-> c, ret |-> FALSE ]

RECURSIVE checkImportSpecifiers_ucd(_, _, _)
checkImportSpecifiers_ucd(c, moduleSpecifier, specifiers) ==
    IF specifiers = << >> THEN c
    ELSE LET specifier == Head(specifiers) IN
         IF specifier.type # "ImportSpecifier" \/ specifier.importKind = "type"
         THEN checkImportSpecifiers_ucd(c, moduleSpecifier, Tail(specifiers))
         ELSE IF isExportAllowlisted_ucd(specifier.imported, moduleSpecifier)
         THEN checkImportSpecifiers_ucd(c, moduleSpecifier, Tail(specifiers))
         ELSE checkImportSpecifiers_ucd(
                 PushTraced(traceDependency_ucd(c, moduleSpecifier),
                            "Import from client module: "
                                \o moduleSpecifier \o "." \o specifier.imported,
                            FALSE),
                 moduleSpecifier, Tail(specifiers))

checkImportForClientDependencies_ucd(c, node) ==
    LET moduleSpecifier == node.source IN
    IF moduleSpecifier \in DOMAIN config.allowlist
       /\ config.allowlist[moduleSpecifier].kind = "true"
    THEN c
    ELSE IF isKnownClientOnlyPackage(moduleSpecifier)
    THEN PushDirect(c, "Import from client-only package: " \o moduleSpecifier)
    ELSE IF node.importKind = "type" THEN c
    ELSE checkImportSpecifiers_ucd(c, moduleSpecifier, node.specifiers)

checkDynamicImport_ucd(c, node) ==
    LET moduleSpecifier == node.source IN
    IF isModuleAllowlisted(moduleSpecifier) THEN c
    ELSE IF isKnownClientOnlyPackage(moduleSpecifier)
    THEN PushDirect(c, "Dynamic import from client-only package: " \o moduleSpecifier)
    ELSE PushTraced(traceDependency_ucd(c, moduleSpecifier),
                    "Dynamic import from client module: " \o moduleSpecifier, TRUE)

\* Program: the directive is looked for among the comments, and
\* checkNodeForClientAPIs is applied to each statement of Program.body (of
\* the statements modelled, only an if statement can match there).
RECURSIVE CheckStatements_ucd(_, _)
CheckStatements_ucd(c, body) ==
    IF body = << >> THEN c
    ELSE LET statement == Head(body)
             c1 == IF statement.type = "IfStatement" /\ statement.top
                   THEN checkNodeForClientAPIs(c, statement).c
                   ELSE c
         IN  CheckStatements_ucd(c1, Tail(body))

Program_ucd(fileName, content) ==
    LET c0 == Program(fileName)
        c1 == [ c0 EXCEPT !.hasUseClientDirective =
                  \E i \in 1..Len(content.comments) :
                      Trim(content.comments[i].value) = "use client" ]
    IN  CheckStatements_ucd(c1, content.body)

\* CallExpression, and the VariableDeclarator or ExpressionStatement handler
\* of the node that holds the call, each check a hook call.
Visit_ucd(c, node) ==
    CASE node.type = "CallExpression" ->
            IF ~isHookCall(node) THEN c
            ELSE IF node.parent \in { "VariableDeclarator", "ExpressionStatement" }
            THEN checkNodeForClientAPIs(checkNodeForClientAPIs(c, node).c, node).c
            ELSE checkNodeForClientAPIs(c, node).c
      [] node.type = "ImportDeclaration" -> checkImportForClientDependencies_ucd(c, node)
      [] node.type = "ImportExpression" -> checkDynamicImport_ucd(c, node)
      [] node.type \in { "ExportNamedDeclaration", "ExportDefaultDeclaration" } ->
            [ c EXCEPT !.hasExports = TRUE ]
      [] OTHER -> c

ProgramExit_ucd(c) ==
    LET missing ==
            IF Len(c.clientDependencies) > 0 /\ ~c.hasUseClientDirective
            THEN << Report("missingUseClient", "", TRUE) >> \o ReportEach(c.clientDependencies)
            ELSE << >>
        shared ==
            IF c.hasExports /\ ~c.hasDirectClientAPIs /\ Len(c.clientDependencies) > 0
            THEN << Report("sharedComponent", "", FALSE) >>
            ELSE << >>
    IN  [ c EXCEPT !.reports = missing \o shared ]

RECURSIVE VisitAll_ucd(_, _)
VisitAll_ucd(c, nodes) ==
    IF nodes = << >> THEN c ELSE VisitAll_ucd(Visit_ucd(c, Head(nodes)), Tail(nodes))

enforceRule_ucd(fileName) ==
    LET content == files[fileName].content IN
    ProgramExit_ucd(VisitAll_ucd(Program_ucd(fileName, content), Traverse(content.body)))

\* The test helper exported beside the rule.
\* checkForClientAPIs(node, options), exported for the tests: the lists of
\* options replace the tables, and an identifier is not asked for its symbol.
checkForClientAPIs(node, options) ==
    LET clientOnlyHooksList == IF "clientOnlyHooksExtended" \in DOMAIN options
                               THEN options.clientOnlyHooksExtended ELSE clientOnlyHooks
        serverSafeHooksList == IF "serverSafeHooksExtended" \in DOMAIN options
                               THEN options.serverSafeHooksExtended ELSE serverSafeHooks
        browserAPIList == IF "browserAPIs" \in DOMAIN options
                          THEN options.browserAPIs ELSE browserAPIs
    IN  IF isHookCall(node)
        THEN LET hookName == node.callee IN
             IF hookName \in clientOnlyHooksList
             THEN [ isClient |-> TRUE, dependency |-> "React hook: " \o hookName ]
             ELSE IF hookName \in serverSafeHooksList
             THEN [ isClient |-> FALSE, dependency |-> Undefined ]
             ELSE [ isClient |-> TRUE, dependency |-> "Unknown hook call: " \o hookName ]
        ELSE IF node.type = "Identifier" /\ node.name \in browserAPIList
        THEN [ isClient |-> TRUE, dependency |-> "Browser API: " \o node.name ]
        ELSE IF node.type = "MemberExpression" /\ node.object \in browserAPIList
        THEN [ isClient |-> TRUE,
               dependency |-> "Browser API: " \o node.object \o "." \o node.property ]
        ELSE IF /\ node.type = "JSXAttribute"
                /\ StartsWith(node.name, "on")
                /\ Len(node.name) > 2
                /\ IsOwnUpperCase(CharAt(node.name, 2))
        THEN [ isClient |-> TRUE, dependency |-> "JSX event handler: " \o node.name ]
        ELSE IF node.type = "IfStatement" /\ isClientDetectionCondition(node)
        THEN [ isClient |-> TRUE,
               dependency |-> "Client detection condition (typeof window check)" ]
        ELSE [ isClient |-> FALSE, dependency |-> Undefined ]

analyzeModuleForClientDependencies_test(filePath, depth, visitedFiles) ==
    IF filePath \in visitedFiles THEN FALSE
    ELSE IF depth <= 0 THEN FALSE
    ELSE IF Includes(filePath, "client") \/ Includes(filePath, "browser") THEN TRUE
    ELSE FALSE

\* ------------------------------- rules/consistent-use-client-placement.ts
isUseClientDirective(node) ==
    node.type = "ExpressionStatement" /\ node.value = "use client"

\* context.report({ node, messageId, fix: null })
ReportNode(c, messageId) ==
    [ c EXCEPT !.reports = Append(@, Report(messageId, "", FALSE)) ]

\* The ExpressionStatement handler for a directive that offers to move a
\* misplaced directive.
placementDirective_fixing(c, isFirstNode) ==
    IF ~c.firstDirectiveFound
    THEN LET c1 == [ c EXCEPT !.firstDirectiveFound = TRUE ] IN
         IF ~isFirstNode
         THEN [ c1 EXCEPT !.reports = Append(@, Report("shouldBeFirst", "", TRUE)) ]
         ELSE c1
    ELSE ReportNode(c, "duplicateDirective")

\* The ExpressionStatement handler for a directive that reports every
\* directive that is not the first node as misplaced.
placementDirective_everyMisplaced(c, isFirstNode) ==
    IF ~isFirstNode
    THEN ReportNode([ c EXCEPT !.firstDirectiveFound = TRUE ], "shouldBeFirst")
    ELSE IF ~c.firstDirectiveFound THEN [ c EXCEPT !.firstDirectiveFound = TRUE ]
    ELSE ReportNode(c, "duplicateDirective")

\* The ExpressionStatement handler for a directive that forgets the first
\* directive once it has reported it as misplaced.
placementDirective_forgetting(c, isFirstNode) ==
    IF ~c.firstDirectiveFound
    THEN IF ~isFirstNode THEN ReportNode(c, "shouldBeFirst")
         ELSE [ c EXCEPT !.firstDirectiveFound = TRUE ]
    ELSE ReportNode(c, "duplicateDirective")

\* The ExpressionStatement handler for a node that is a directive;
\* isFirstNode: node === program.body[0].
placementDirective(c, isFirstNode) ==
    IF ~c.firstDirectiveFound
    THEN LET c1 == [ c EXCEPT !.firstDirectiveFound = TRUE ] IN
         IF ~isFirstNode THEN ReportNode(c1, "shouldBeFirst") ELSE c1
    ELSE ReportNode(c, "duplicateDirective")

\* The nodes of the file from the i-th on, each given to its handler. A file
\* lists every statement of Program.body, so program.body[0] is its first
\* node when that node is a statement of Program.body.
RECURSIVE placementVisit(_, _, _)
placementVisit(c, body, i) ==
    IF i > Len(body) THEN c
    ELSE IF isUseClientDirective(body[i])
    THEN placementVisit(placementDirective(c, i = 1 /\ body[i].top), body, i + 1)
    ELSE placementVisit(c, body, i + 1)

placementRule(fileName) ==
    placementVisit([ firstDirectiveFound |-> FALSE ] @@ Program(fileName),
                   files[fileName].content.body, 1)

\* ---------------------------------------- rules/no-server-only-in-client.ts
\* Nodes only this rule looks at. import * as local from source:
NamespaceSpecifier(local) ==
    [ type |-> "ImportNamespaceSpecifier", imported |-> local, importKind |-> "value" ]

\* function name() {}
FunctionDecl(name) == [ type |-> "FunctionDeclaration", name |-> name ]

\* object.property.outer: a member expression whose object is the member
\* expression object.property.
NestedMember(object, property, outer) ==
    [ type |-> "MemberExpression", nested |-> TRUE, object |-> object,
      property |-> property, outer |-> outer ]

\* callee(url, { cache: 'cache' })
CallWithCache(callee, cache) ==
    [ cache |-> cache ] @@ Call(callee, "None", "ExpressionStatement")

DEFAULT_SERVER_ONLY_APIS ==
    [ m \in { "next/headers", "next/server", "next/cache", "server-only",
              "next/font/google", "next/font/local", "fs/promises" } |->
        CASE m \in { "next/headers", "next/server" } -> { "cookies", "headers" }
          [] m = "next/cache" -> { "revalidatePath", "revalidateTag" }
          [] m = "fs/promises" ->
                { "*", "readFile", "writeFile", "appendFile", "mkdir", "readdir", "stat" }
          [] OTHER -> { "*" } ]

DEFAULT_NODE_APIS ==
    [ m \in { "fs", "path", "process", "querystring", "crypto", "os" } |->
        IF m = "process" THEN { "cwd", "env" } ELSE { "*" } ]

DEFAULT_SERVER_ONLY_MODULES ==
    { "server-only", "node:fs", "node:path", "node:process", "node:crypto", "node:os",
      "node:querystring" }

\* apis.includes(name) || apis.includes("*"), for the entry of source in table
ListsApi(table, source, name) ==
    source \in DOMAIN table /\ (name \in table[source] \/ "*" \in table[source])

\* The four report functions without the test of isClientComponent.
reportInClient_unguarded(c, messageId, pos, key, api, source) ==
    IF << pos, key >> \in c.reportedNodes THEN c
    ELSE [ c EXCEPT !.reportedNodes = @ \cup { << pos, key >> },
                    !.reports = Append(@, [ api |-> api, source |-> source, pos |-> pos ]
                                          @@ Report(messageId, "", FALSE)) ]

\* reportServerOnlyApiInClient, reportServerOnlyImportInClient,
\* reportNodeApiInClient and reportDataFetchingPatternInClient: pos is
\* node.loc.start and key the third part of nodeKey.
reportInClient(c, messageId, pos, key, api, source) ==
    IF ~c.isClientComponent THEN c
    ELSE IF << pos, key >> \in c.reportedNodes THEN c
    ELSE [ c EXCEPT !.reportedNodes = @ \cup { << pos, key >> },
                    !.reports = Append(@, [ api |-> api, source |-> source, pos |-> pos ]
                                          @@ Report(messageId, "", FALSE)) ]

\* The two loops over the API tables that the identifier, call and member
\* checks share: ret tells whether an entry matched (the check returns).
\* fsAsServerOnly: the loop reports fs/promises as a server-only API.
checkApiTables(c, source, name, pos, fsAsServerOnly) ==
    IF ListsApi(DEFAULT_SERVER_ONLY_APIS, source, name)
    THEN [ c |-> reportInClient(c, "serverOnlyApiInClient", pos, name, name, source),
           ret |-> TRUE ]
    ELSE IF ListsApi(DEFAULT_NODE_APIS, source, name)
    THEN [ c |-> IF fsAsServerOnly /\ source = "fs/promises"
                 THEN reportInClient(c, "serverOnlyApiInClient", pos, name, name, source)
                 ELSE reportInClient(c, "nodeApiInClient", pos, name, name, source),
           ret |-> TRUE ]
    ELSE [ c |-> c, ret |-> FALSE ]

NoMatch(c) == [ c |-> c, ret |-> FALSE ]

\* checkIdentifier after the lookup of the import (t: what the loops gave).
checkIdentifier_lifecycle(t, name, parentType, pos) ==
    IF t.ret THEN t.c
    ELSE IF /\ t.c.isClientComponent
            /\ name \in { "generateStaticParams", "generateMetadata" }
            /\ parentType = "FunctionDeclaration"
    THEN reportInClient(t.c, "serverOnlyApiInClient", pos, name, name,
                        "Next.js Server Functions")
    ELSE t.c

checkIdentifier(c, name, parentType, pos) ==
    IF parentType \in { "ImportSpecifier", "ImportDefaultSpecifier",
                        "ImportNamespaceSpecifier", "ExportSpecifier" }
    THEN c
    ELSE checkIdentifier_lifecycle(
            IF name \in DOMAIN c.imports
            THEN checkApiTables(c, c.imports[name].source, c.imports[name].importedName,
                                pos, TRUE)
            ELSE NoMatch(c),
            name, parentType, pos)

\* cache: the literal value of the property cache of the object, or Null.
checkObjectExpression(c, cache, pos) ==
    IF c.isClientComponent /\ cache \in { "force-cache", "only-if-cached" }
    THEN reportInClient(c, "dataFetchingPatternInClient", pos, cache, cache, "")
    ELSE c

\* checkCallExpression after the lookup of the callee (t: what the loops
\* gave): the check for fetch with cache options.
checkCallExpression_fetch(t, node, i) ==
    IF t.ret THEN t.c
    ELSE IF node.callee = "fetch" /\ "cache" \in DOMAIN node
    THEN checkObjectExpression(t.c, node.cache, << i, 3 >>)
    ELSE t.c

\* Positions: the i-th node starts at << i, 0 >>, as do its callee or
\* object; its property is at << i, 1 >>, the property of a nested member
\* at << i, 2 >> and the second argument of a call at << i, 3 >>.
checkCallExpression(c, node, i) ==
    checkCallExpression_fetch(
        IF node.callee \in DOMAIN c.imports
        THEN checkApiTables(c, c.imports[node.callee].source,
                            c.imports[node.callee].importedName, << i, 0 >>, FALSE)
        ELSE NoMatch(c),
        node, i)

\* checkMemberExpression of object.property from the special case for
\* fs.writeFile on (c: the context after the check of process).
checkMemberExpression_imported(c, object, property, i) ==
    IF /\ c.isClientComponent /\ object = "fs" /\ property = "writeFile"
       /\ \E local \in DOMAIN c.imports :
             c.imports[local].source = "fs/promises" /\ c.imports[local].isNamespaceImport
    THEN reportInClient(c, "serverOnlyApiInClient", << i, 0 >>, "writeFile", "writeFile",
                        "fs/promises")
    ELSE IF object \in DOMAIN c.imports /\ c.imports[object].isNamespaceImport
    THEN checkApiTables(c, c.imports[object].source, property, << i, 0 >>, TRUE).c
    ELSE c

\* checkMemberExpression of object.property, the object an identifier; for
\* a member expression whose object is object.property, the recursive call.
checkMemberExpression(c, object, property, i) ==
    checkMemberExpression_imported(
        IF /\ c.isClientComponent /\ object = "process"
           /\ ListsApi(DEFAULT_NODE_APIS, "process", property)
        THEN reportInClient(c, "nodeApiInClient", << i, 0 >>, property, property, "Node.js")
        ELSE c,
        object, property, i)

\* imports.set(localName, ...) for each specifier
RECURSIVE trackSpecifiers(_, _, _)
trackSpecifiers(imports, source, specifiers) ==
    IF specifiers = << >> THEN imports
    ELSE LET specifier == Head(specifiers) IN
         trackSpecifiers(
            MapSet(imports, specifier.imported,
                   [ source |-> source,
                     importedName |->
                        CASE specifier.type = "ImportSpecifier" -> specifier.imported
                          [] specifier.type = "ImportDefaultSpecifier" -> "default"
                          [] OTHER -> "*",
                     isNamespaceImport |-> specifier.type = "ImportNamespaceSpecifier" ]),
            source, Tail(specifiers))

\* ImportDeclaration without the return after the report: the specifiers of
\* a server-only module are tracked as well.
ImportDeclaration_nso_tracking(c, node, i) ==
    [ (IF c.isClientComponent /\ node.source \in DEFAULT_SERVER_ONLY_MODULES
       THEN reportInClient(c, "serverOnlyImportInClient", << i, 0 >>, node.source, "",
                           node.source)
       ELSE c)
      EXCEPT !.imports = trackSpecifiers(@, node.source, node.specifiers) ]

ImportDeclaration_nso(c, node, i) ==
    IF c.isClientComponent /\ node.source \in DEFAULT_SERVER_ONLY_MODULES
    THEN reportInClient(c, "serverOnlyImportInClient", << i, 0 >>, node.source, "",
                        node.source)
    ELSE [ c EXCEPT !.imports = trackSpecifiers(@, node.source, node.specifiers) ]

Program_nso(fileName, content) ==
    [ imports |-> [ local \in {} |-> Null ],
      reportedNodes |-> {},
      isClientComponent |->
         \/ \E k \in 1..Len(content.body) :
               /\ content.body[k].type = "ExpressionStatement"
               /\ content.body[k].top
               /\ Trim(content.body[k].value) = "use client"
         \/ \E k \in 1..Len(content.comments) :
               Trim(content.comments[k].value) = "use client" ]
    @@ Program(fileName)

\* The handlers of the i-th node and of the nodes it holds, in the order of
\* the traversal.
Visit_nso(c, node, i) ==
    CASE node.type = "ImportDeclaration" -> ImportDeclaration_nso(c, node, i)
      [] node.type = "CallExpression" ->
            LET called == checkIdentifier(checkCallExpression(c, node, i), node.callee,
                                          "CallExpression", << i, 0 >>)
            IN  IF "cache" \in DOMAIN node
                THEN checkObjectExpression(called, node.cache, << i, 3 >>)
                ELSE called
      [] node.type = "MemberExpression" /\ "call" \in DOMAIN node ->
            checkIdentifier(
                checkIdentifier(checkCallExpression(c, [ callee |-> node.object ], i),
                                node.object, "CallExpression", << i, 0 >>),
                node.property, "MemberExpression", << i, 1 >>)
      [] node.type = "MemberExpression" /\ "nested" \notin DOMAIN node ->
            checkIdentifier(
                checkIdentifier(checkMemberExpression(c, node.object, node.property, i),
                                node.object, "MemberExpression", << i, 0 >>),
                node.property, "MemberExpression", << i, 1 >>)
      [] node.type = "MemberExpression" /\ "nested" \in DOMAIN node ->
            checkIdentifier(
                checkIdentifier(
                    checkIdentifier(
                        checkMemberExpression(
                            checkMemberExpression(c, node.object, node.property, i),
                            node.object, node.property, i),
                        node.object, "MemberExpression", << i, 0 >>),
                    node.property, "MemberExpression", << i, 1 >>),
                node.outer, "MemberExpression", << i, 2 >>)
      [] node.type = "FunctionDeclaration" ->
            checkIdentifier(c, node.name, "FunctionDeclaration", << i, 1 >>)
      [] node.type = "Identifier" ->
            checkIdentifier(c, node.name, "ExpressionStatement", << i, 0 >>)
      [] OTHER -> c

RECURSIVE VisitAll_nso(_, _, _)
VisitAll_nso(c, body, i) ==
    IF i > Len(body) THEN c ELSE VisitAll_nso(Visit_nso(c, body[i], i), body, i + 1)

noServerOnlyInClientRule(fileName) ==
    VisitAll_nso(Program_nso(fileName, files[fileName].content),
                 files[fileName].content.body, 1)

\* ------------------------------------- rules/no-mixed-server-client-apis.ts
\* callee().property: a member expression whose object is a call of an
\* identifier.
CallMember(callee, property) ==
    [ type |-> "MemberExpression", call |-> TRUE, object |-> callee, property |-> property ]

DEFAULT_BROWSER_GLOBALS ==
    { "document", "window", "navigator", "localStorage", "sessionStorage", "history",
      "location" }

DEFAULT_CLIENT_HOOKS ==
    { "useState", "useEffect", "useLayoutEffect", "useReducer", "useRef",
      "useImperativeHandle", "useCallback", "useMemo", "useContext", "useTransition",
      "useDeferredValue", "useInsertionEffect" }

\* DEFAULT_SERVER_ONLY_APIS of this rule
DEFAULT_SERVER_ONLY_APIS_mixed ==
    [ m \in { "next/headers", "next/server", "next/cache", "next/navigation" } |->
        CASE m \in { "next/headers", "next/server" } -> { "cookies", "headers" }
          [] m = "next/cache" -> { "revalidatePath", "revalidateTag" }
          [] OTHER -> { "redirect", "permanentRedirect" } ]

DEFAULT_CLIENT_ONLY_APIS ==
    [ m \in { "next/router", "next/navigation" } |->
        IF m = "next/router" THEN { "useRouter" }
        ELSE { "useRouter", "useSearchParams", "usePathname" } ]

\* importInfo.source === source && apis.includes(importInfo.importedName),
\* for some entry of table
Lists(table, importInfo) ==
    importInfo.source \in DOMAIN table /\ importInfo.importedName \in table[importInfo.source]

\* pos is node.loc.start
reportServerInClient(c, pos, api, source) ==
    IF ~c.isClientComponent THEN c
    ELSE IF << pos, api >> \in c.reportedNodes THEN c
    ELSE [ c EXCEPT !.reportedNodes = @ \cup { << pos, api >> },
                    !.reports = Append(@, [ api |-> api, source |-> source, pos |-> pos ]
                                          @@ Report("serverInClient", "", FALSE)) ]

reportClientInServer(c, pos, api) ==
    IF c.isClientComponent THEN c
    ELSE IF << pos, api >> \in c.reportedNodes THEN c
    ELSE [ c EXCEPT !.reportedNodes = @ \cup { << pos, api >> },
                    !.reports = Append(@, [ api |-> api, source |-> "", pos |-> pos ]
                                          @@ Report("clientInServer", "", FALSE)) ]

\* checkIdentifier from the check for browser globals on.
checkIdentifier_mixed_globals(c, name, pos) ==
    IF ~c.isClientComponent /\ name \in DEFAULT_BROWSER_GLOBALS
    THEN reportClientInServer(c, pos, name)
    ELSE c

\* isCallee: the parent is a call expression and the node is its callee.
checkIdentifier_mixed(c, name, parentType, isCallee, pos) ==
    IF parentType \in { "ImportSpecifier", "ImportDefaultSpecifier",
                        "ImportNamespaceSpecifier", "ExportSpecifier" }
    THEN c
    ELSE IF name \in DOMAIN c.imports /\ Lists(DEFAULT_SERVER_ONLY_APIS_mixed, c.imports[name])
    THEN reportServerInClient(c, pos, c.imports[name].importedName, c.imports[name].source)
    ELSE IF name \in DOMAIN c.imports /\ Lists(DEFAULT_CLIENT_ONLY_APIS, c.imports[name])
    THEN reportClientInServer(c, pos, c.imports[name].importedName)
    ELSE checkIdentifier_mixed_globals(
            IF ~c.isClientComponent /\ name \in DEFAULT_CLIENT_HOOKS /\ isCallee
            THEN reportClientInServer(c, pos, name)
            ELSE c,
            name, pos)

\* checkMemberExpression of the i-th node; checkNestedMemberExpression calls
\* it again for the member expression that is its object.
checkMemberExpression_mixed(c, node, i) ==
    IF "call" \in DOMAIN node
    THEN IF node.object \in DOMAIN c.imports
              /\ Lists(DEFAULT_SERVER_ONLY_APIS_mixed, c.imports[node.object])
         THEN reportServerInClient(c, << i, 0 >>, c.imports[node.object].importedName,
                                   c.imports[node.object].source)
         ELSE c
    ELSE IF ~c.isClientComponent /\ node.object \in DEFAULT_BROWSER_GLOBALS
    THEN reportClientInServer(c, << i, 0 >>, node.object)
    ELSE c

ImportDeclaration_mixed(c, node) ==
    [ c EXCEPT !.imports = trackSpecifiers(@, node.source, node.specifiers) ]

JSXAttribute_mixed(c, node, i) ==
    IF c.isClientComponent THEN c
    ELSE IF /\ StartsWith(node.name, "on")
            /\ Len(node.name) > 2
            /\ IsOwnUpperCase(CharAt(node.name, 2))
    THEN reportClientInServer(c, << i, 0 >>, node.name)
    ELSE c

\* The handlers of the i-th node and of the nodes it holds, in the order of
\* the traversal.
Visit_mixed(c, node, i) ==
    CASE node.type = "ImportDeclaration" -> ImportDeclaration_mixed(c, node)
      [] node.type = "CallExpression" ->
            checkIdentifier_mixed(c, node.callee, "CallExpression", TRUE, << i, 0 >>)
      [] node.type = "MemberExpression" /\ "call" \in DOMAIN node ->
            checkIdentifier_mixed(
                checkIdentifier_mixed(checkMemberExpression_mixed(c, node, i),
                                      node.object, "CallExpression", TRUE, << i, 0 >>),
                node.property, "MemberExpression", FALSE, << i, 1 >>)
      [] node.type = "MemberExpression" /\ "nested" \in DOMAIN node ->
            checkIdentifier_mixed(
                checkIdentifier_mixed(
                    checkIdentifier_mixed(
                        checkMemberExpression_mixed(
                            checkMemberExpression_mixed(c, node, i), node, i),
                        node.object, "MemberExpression", FALSE, << i, 0 >>),
                    node.property, "MemberExpression", FALSE, << i, 1 >>),
                node.outer, "MemberExpression", FALSE, << i, 2 >>)
      [] node.type = "MemberExpression" ->
            checkIdentifier_mixed(
                checkIdentifier_mixed(checkMemberExpression_mixed(c, node, i),
                                      node.object, "MemberExpression", FALSE, << i, 0 >>),
                node.property, "MemberExpression", FALSE, << i, 1 >>)
      [] node.type = "JSXAttribute" -> JSXAttribute_mixed(c, node, i)
      [] node.type = "Identifier" ->
            checkIdentifier_mixed(c, node.name, "ExpressionStatement", FALSE, << i, 0 >>)
      [] OTHER -> c

RECURSIVE VisitAll_mixed(_, _, _)
VisitAll_mixed(c, body, i) ==
    IF i > Len(body) THEN c ELSE VisitAll_mixed(Visit_mixed(c, body[i], i), body, i + 1)

noMixedServerClientAPIsRule(fileName) ==
    VisitAll_mixed(Program_nso(fileName, files[fileName].content),
                   files[fileName].content.body, 1)

\* ------------------------------------ rules/destructure-react-imports.ts
\* import local, { named } from "source";
DefaultImport(local, named, source) ==
    [ type |-> "ImportDeclaration", local |-> local, named |-> named, source |-> source ]

\* const id = require("source");
Require(id, source) == [ type |-> "VariableDeclaration", id |-> id, source |-> source ]

\* left.right<typeArguments> (left = Null: an unqualified name), the
\* arguments being type references themselves.
TypeRef(left, right, typeArguments) ==
    [ type |-> "TSTypeReference", left |-> left, right |-> right,
      typeArguments |-> typeArguments ]

\* type name = ref;
TypeAlias(name, ref) == [ type |-> "TSTypeAliasDeclaration", name |-> name, ref |-> ref ]

RECURSIVE Join(_, _)
Join(strings, separator) ==
    IF strings = << >> THEN ""
    ELSE IF Len(strings) = 1 THEN strings[1]
    ELSE strings[1] \o separator \o Join(Tail(strings), separator)

\* sourceCode.getText of a type reference.
RECURSIVE TypeRefText(_)
TypeRefText(ref) ==
    (IF ref.left = Null THEN "" ELSE ref.left \o ".") \o ref.right
    \o (IF ref.typeArguments = << >> THEN ""
        ELSE "<" \o Join([ k \in 1..Len(ref.typeArguments) |-> TypeRefText(ref.typeArguments[k]) ],
                         ", ") \o ">")

\* sourceCode.getText of a statement.
StatementText(n) ==
    CASE n.type = "ImportDeclaration" /\ "local" \in DOMAIN n ->
            "import " \o n.local
                      \o (IF n.named = << >> THEN "" ELSE ", { " \o Join(n.named, ", ") \o " }")
                      \o " from \"" \o n.source \o "\";"
      [] n.type = "VariableDeclaration" ->
            "const " \o n.id \o " = require(\"" \o n.source \o "\");"
      [] n.type = "TSTypeAliasDeclaration" ->
            "type " \o n.name \o " = " \o TypeRefText(n.ref) \o ";"
      [] OTHER -> Render(n)

\* sourceCode.text: one statement per line.
RECURSIVE SourceText(_)
SourceText(body) ==
    IF body = << >> THEN "" ELSE StatementText(Head(body)) \o "\n" \o SourceText(Tail(body))

\* range[0] of the i-th statement.
RECURSIVE StartOf(_, _)
StartOf(body, i) ==
    IF i = 1 THEN 0 ELSE StartOf(body, i - 1) + Len(StatementText(body[i - 1])) + 1

\* The UTF-16 code units of the characters of identifiers, in their order.
CodeUnits == "$0123456789ABCDEFGHIJKLMNOPQRSTUVWXYZ_abcdefghijklmnopqrstuvwxyz"

CodeOf(ch) == CHOOSE i \in 1..Len(CodeUnits) : SubSeq(CodeUnits, i, i) = ch

\* a < b, as Array.prototype.sort without a comparator orders strings.
RECURSIVE Before(_, _)
Before(a, b) ==
    IF b = "" THEN FALSE
    ELSE IF a = "" THEN TRUE
    ELSE IF SubSeq(a, 1, 1) = SubSeq(b, 1, 1)
         THEN Before(SubSeq(a, 2, Len(a)), SubSeq(b, 2, Len(b)))
         ELSE CodeOf(SubSeq(a, 1, 1)) < CodeOf(SubSeq(b, 1, 1))

\* Array.from(set).sort()
RECURSIVE Sort(_)
Sort(set) ==
    IF set = {} THEN << >>
    ELSE LET least == CHOOSE x \in set : \A y \in set \ { x } : Before(x, y) IN
         << least >> \o Sort(set \ { least })

\* The first index of sub in s (0-based), -1 when there is none.
RECURSIVE IndexFrom(_, _, _)
IndexFrom(s, sub, i) ==
    IF i + Len(sub) > Len(s) THEN 0 - 1
    ELSE IF SubSeq(s, i + 1, i + Len(sub)) = sub THEN i
    ELSE IndexFrom(s, sub, i + 1)

\* The run of characters of s from index i (0-based) to the end of the line.
RECURSIVE RestOfLine(_, _)
RestOfLine(s, i) ==
    IF i >= Len(s) \/ SubSeq(s, i + 1, i + 1) = "\n" THEN ""
    ELSE SubSeq(s, i + 1, i + 1) \o RestOfLine(s, i + 1)

\* new RegExp(`${importName}\\.${typeName}(.*)`).exec(fullText)?.[1] ?? ""
TypeParamsMatch(importName, typeName, fullText) ==
    LET at == IndexFrom(fullText, importName \o "." \o typeName, 0) IN
    IF at < 0 THEN ""
    ELSE RestOfLine(fullText, at + Len(importName) + 1 + Len(typeName))

RuleFix(range, text) == [ range |-> range, text |-> text ]

ImportDefaultSpecifier_dri(c, node, start) ==
    IF node.source = "react"
    THEN [ c EXCEPT !.defaultImportNode =
                        [ type |-> "ImportDefaultSpecifier",
                          parent |-> << start, start + Len(StatementText(node)) >> ],
                    !.importName = node.local,
                    !.existingNamedImports = @ \cup Range(node.named) ]
    ELSE c

VariableDeclarator_dri(c, node, start) ==
    IF node.source = "react"
    THEN [ c EXCEPT !.defaultImportNode =
                        [ type |-> "VariableDeclarator",
                          parent |-> << start, start + Len(StatementText(node)) >> ],
                    !.importName = node.id ]
    ELSE c

MemberExpression_dri(c, node, start) ==
    IF c.importName # Null /\ node.object = c.importName
    THEN [ c EXCEPT !.usedReactMembers = @ \cup { node.property },
                    !.reactUsages =
                        Append(@, [ range |-> << start, start + Len(node.object) + 1
                                                          + Len(node.property) >>,
                                    property |-> node.property,
                                    typeParams |-> "" ]) ]
    ELSE c

\* The listener for one type reference that starts at start.
TSTypeReference_dri(c, node, start) ==
    IF node.left # Null /\ c.importName # Null /\ node.left = c.importName
    THEN [ c EXCEPT !.usedReactMembers = @ \cup { node.right },
                    !.typeReferences =
                        Append(@, [ range |-> << start, start + Len(TypeRefText(node)) >>,
                                    typeName |-> node.right,
                                    fullText |-> TypeRefText(node) ]) ]
    ELSE c

\* The traversal of the type references refs, the first starting at start and
\* each next one two characters (", ") after the end of the one before: a
\* reference is visited before its type arguments.
RECURSIVE VisitTypeRefs_dri(_, _, _)
VisitTypeRefs_dri(c, refs, start) ==
    IF refs = << >> THEN c
    ELSE LET ref == Head(refs)
             name == (IF ref.left = Null THEN "" ELSE ref.left \o ".") \o ref.right IN
         VisitTypeRefs_dri(
             VisitTypeRefs_dri(TSTypeReference_dri(c, ref, start), ref.typeArguments,
                               start + Len(name) + 1),
             Tail(refs), start + Len(TypeRefText(ref)) + 2)

Visit_dri(c, node, start) ==
    CASE node.type = "ImportDeclaration" /\ "local" \in DOMAIN node ->
            ImportDefaultSpecifier_dri(c, node, start)
      [] node.type = "VariableDeclaration" -> VariableDeclarator_dri(c, node, start)
      [] node.type = "MemberExpression" -> MemberExpression_dri(c, node, start)
      [] node.type = "TSTypeAliasDeclaration" ->
            VisitTypeRefs_dri(c, << node.ref >>, start + Len("type " \o node.name \o " = "))
      [] OTHER -> c

RECURSIVE VisitAll_dri(_, _, _)
VisitAll_dri(c, body, i) ==
    IF i > Len(body) THEN c
    ELSE VisitAll_dri(Visit_dri(c, body[i], StartOf(body, i)), body, i + 1)

\* The fix of removeUnusedReact.
RemoveUnusedFix(c, body) ==
    LET after == { i \in 1..Len(body) : StartOf(body, i) > c.defaultImportNode.parent[1] }
        remainingCode ==
            Join([ k \in 1..Cardinality(after) |->
                     StatementText(body[Len(body) - Cardinality(after) + k]) ], "\n") IN
    IF remainingCode # ""
    THEN << RuleFix(<< c.defaultImportNode.parent[1], Len(SourceText(body)) >>, remainingCode) >>
    ELSE << RuleFix(c.defaultImportNode.parent, "") >>

\* The fixes of destructureReact.
DestructureFix(c) ==
    LET sortedMembers == Sort(c.existingNamedImports \cup c.usedReactMembers)
        newText == IF c.defaultImportNode.type = "ImportDefaultSpecifier"
                   THEN "import { " \o Join(sortedMembers, ", ") \o " } from \"react\";"
                   ELSE "const { " \o Join(sortedMembers, ", ") \o " } = require(\"react\");" IN
    << RuleFix(c.defaultImportNode.parent, newText) >>
    \o [ k \in 1..Len(c.reactUsages) |->
           RuleFix(c.reactUsages[k].range,
                   c.reactUsages[k].property \o c.reactUsages[k].typeParams) ]
    \o [ k \in 1..Len(c.typeReferences) |->
           RuleFix(c.typeReferences[k].range,
                   c.typeReferences[k].typeName
                   \o TypeParamsMatch(c.importName, c.typeReferences[k].typeName,
                                      c.typeReferences[k].fullText)) ]

ProgramExit_dri(c, body) ==
    IF c.defaultImportNode.type = Null \/ c.importName = Null THEN c
    ELSE IF c.usedReactMembers = {} /\ c.existingNamedImports = {}
    THEN [ c EXCEPT !.reports =
             Append(@, [ fixes |-> RemoveUnusedFix(c, body) ]
                       @@ Report("removeUnusedReact", "", TRUE)) ]
    ELSE [ c EXCEPT !.reports =
             Append(@, [ fixes |-> DestructureFix(c) ]
                       @@ Report("destructureReact", "", TRUE)) ]

destructureReactImportsRule(fileName) ==
    LET body == files[fileName].content.body IN
    ProgramExit_dri(
        VisitAll_dri([ defaultImportNode |-> [ type |-> Null ], importName |-> Null,
                       usedReactMembers |-> {}, existingNamedImports |-> {},
                       reactUsages |-> << >>, typeReferences |-> << >> ]
                     @@ Program(fileName), body, 1),
        body)

\* ------------------------------------------------------------ the inputs
\* Bodies of files that import other files of the directory.
ImportTwo ==
    File(<< Import("./M1", << Specifier("a", "value"), Specifier("b", "value") >>, "value"),
            ExportNamed(Null) >>, << >>)

ImportMixed ==
    File(<< Import("./M1", << Specifier("a", "value") >>, "value"),
            DynamicImport("./M1"),
            ExportAll("./M1") >>, << >>)

Plain == File(<< ExportNamed(Null) >>, << >>)

Browser ==
    File(<< Member("window", "Value", "innerWidth", "Value"), ExportNamed(Null) >>, << >>)

ImportsM2 ==
    File(<< Import("./M2", << Specifier("c", "value") >>, "value"), ExportNamed(Null) >>, << >>)

ImportsF ==
    File(<< Import("./F", << Specifier("d", "value") >>, "value"), ExportNamed(Null) >>, << >>)

Marked == File(<< ExprStmt("use client", "'", TRUE), ExportNamed(Null) >>, << >>)

EntryContents == { ImportTwo, ImportMixed }

DependencyContents(p) ==
    IF p = "M1" THEN { Plain, Browser, ImportsM2, ImportsF, Marked }
    ELSE { Plain, Browser }

\* Bodies of files analysed on their own.
UsesState ==
    << Import("react", << Specifier("useState", "value") >>, "value"),
       ExportDefault,
       Call("useState", "Alias", "VariableDeclarator") >>

UsesId ==
    << Import("react", << Specifier("useId", "value"), Specifier("useMemo", "value") >>, "value"),
       ExportDefault,
       Call("useId", "Alias", "VariableDeclarator"),
       Call("useMemo", "Alias", "VariableDeclarator") >>

UsesIdNoExport ==
    << Import("react", << Specifier("useId", "value") >>, "value"),
       Call("useId", "Alias", "ExpressionStatement") >>

UsesPortal ==
    << Import("react-dom", << Specifier("createPortal", "value") >>, "value"),
       Call("createPortal", "Alias", "ReturnStatement") >>

UsesDocument ==
    << ExportNamed(Null), Member("document", "Value", "title", "Value") >>

UsesRouter ==
    << Import("next/router", << Specifier("useRouter", "value") >>, "value"),
       ExportNamed(Null),
       Call("useRouter", "Alias", "VariableDeclarator") >>

Bodies == { UsesState, UsesId, UsesIdNoExport, UsesPortal, UsesDocument, UsesRouter }

\* The ways a file states (or does not state) the directive, and the
\* comment that switches the rule off.
Markings == { "none", "double", "single", "line", "block", "disable" }

Marking(body, marking) ==
    CASE marking = "none" -> File(body, << >>)
      [] marking = "double" -> File(<< ExprStmt("use client", "\"", TRUE) >> \o body, << >>)
      [] marking = "single" -> File(<< ExprStmt("use client", "'", TRUE) >> \o body, << >>)
      [] marking = "line" -> File(body, << Comment("Line", " use client") >>)
      [] marking = "block" -> File(body, << Comment("Block", " use client ") >>)
      [] marking = "disable" -> File(body, << Comment("Line", " check-use-client-disable") >>)

SingleFileContents == { Marking(b, m) : b \in Bodies, m \in Markings }

\* defaultOptions[0].allowlist
DefaultAllowlist ==
    [ m \in { "react", "react-dom", "next", "next/image", "next/link", "next/router" }
        |-> AllowTrue ]

EmptyAllowlist == [ m \in {} |-> AllowTrue ]

ExportsAllowlist ==
    [ m \in { "react", "react-dom", "next/router" } |->
        CASE m = "react" -> AllowArray({ "useState" })
          [] m = "react-dom" -> AllowArray({ "createPortal" })
          [] m = "next/router" -> AllowArray({ "*" }) ]

Rules == { "enforce-use-client", "use-client-directive" }

Config(rule, allowlist, traceDepth, traceDependencies) ==
    [ rule |-> rule, allowlist |-> allowlist, traceDepth |-> traceDepth,
      traceDependencies |-> traceDependencies ]

TraceConfigs ==
    { Config(r, DefaultAllowlist, d, TRUE) : r \in Rules, d \in 0..2 }
    \cup { Config(r, DefaultAllowlist, 1, FALSE) : r \in Rules }

SingleFileConfigs ==
    { Config(r, a, 1, TRUE) :
        r \in Rules, a \in { DefaultAllowlist, EmptyAllowlist, ExportsAllowlist } }

\* Files for consistent-use-client-placement: up to MaxStatements of the
\* directive in place, the directive inside a function body, an import and
\* another string statement; without comments, after an ordinary comment and
\* after the comment form of the directive.
PlacementNodes ==
    { ExprStmt("use client", "\"", TRUE), ExprStmt("use client", "'", FALSE),
      Import("react", << Specifier("useState", "value") >>, "value"),
      ExprStmt("use strict", "'", TRUE) }

PlacementFiles ==
    { File(body, comments) :
        body \in UNION { [ 1..n -> PlacementNodes ] : n \in 1..MaxStatements },
        comments \in { << >>, << Comment("Line", " This is a client component") >>,
                       << Comment("Line", " use client") >> } }

\* Bodies for no-server-only-in-client: one use of each kind of server-only
\* capability, and type-only imports.
ServerOnlyBodies ==
    { << Import("next/headers", << Specifier("cookies", "value") >>, "value"),
         Call("cookies", "Alias", "VariableDeclarator") >>,
      << Import("fs/promises", << NamespaceSpecifier("fs") >>, "value"),
         Member("fs", "Alias", "writeFile", "None") >>,
      << Import("node:fs", << Specifier("readFileSync", "value") >>, "value"),
         Call("readFileSync", "Alias", "ExpressionStatement") >>,
      << Import("server-only", << Specifier("serverOnly", "value") >>, "value"),
         Call("serverOnly", "Alias", "ExpressionStatement") >>,
      << Import("server-only", << NamespaceSpecifier("so") >>, "value"),
         Member("so", "Alias", "mark", "None") >>,
      << NestedMember("process", "env", "NODE_ENV") >>,
      << CallWithCache("fetch", "force-cache") >>,
      << FunctionDecl("generateMetadata"), ExportNamed(Null) >> }

\* Bodies for the two rules that tell server-only from client-only uses:
\* each use is reached by more than one handler.
MixedBodies ==
    { << Import("next/headers", << Specifier("cookies", "value") >>, "value"),
         Call("cookies", "Alias", "VariableDeclarator") >>,
      << Import("next/headers", << Specifier("cookies", "value") >>, "value"),
         CallMember("cookies", "get") >>,
      << Import("next/headers", << NamespaceSpecifier("Headers") >>, "value"),
         Member("Headers", "Alias", "cookies", "None") >>,
      << Import("fs/promises", << NamespaceSpecifier("fsPromises") >>, "value"),
         Member("fsPromises", "Alias", "readFile", "None") >>,
      << Import("fs", << NamespaceSpecifier("fs") >>, "value"),
         Member("fs", "Alias", "readFileSync", "None") >>,
      << Import("next/navigation", << Specifier("useRouter", "value") >>, "value"),
         Call("useRouter", "Alias", "VariableDeclarator") >>,
      << Member("window", "None", "location", "None") >>,
      << NestedMember("window", "location", "href") >>,
      << Call("useState", "Alias", "VariableDeclarator") >>,
      << JSXAttr("onClick") >> }

TypeOnlyBodies ==
    { << Import("node:fs", << Specifier("Stats", "value") >>, "type") >>,
      << Import("next/headers", << Specifier("cookies", "type") >>, "value"),
         Ident("cookies", "Alias") >>,
      << Import("framer-motion", << Specifier("MotionProps", "value") >>, "type"),
         ExportNamed(Null) >>,
      << Import("./M1", << Specifier("ClientComponent", "value") >>, "type"),
         ExportDefault >> }

\* Statements for destructure-react-imports: default imports and requires of
\* react and of another module, member accesses, and type references, one of
\* them with a qualified reference among its type arguments.
ImportNodes ==
    { DefaultImport("React", << >>, "react"),
      DefaultImport("React", << "useRef" >>, "react"),
      DefaultImport("React", << >>, "preact"),
      Require("React", "react"),
      Member("React", "None", "useState", "None"),
      TypeAlias("A", TypeRef("React", "FC", << TypeRef("React", "ReactNode", << >>) >>)),
      TypeAlias("B", TypeRef("React", "FC", << TypeRef(Null, "Props", << >>) >>)),
      TypeAlias("C", TypeRef("React", "ReactNode", << >>)) }

ImportFiles ==
    { File(b, << >>) : b \in UNION { [ 1..n -> ImportNodes ] : n \in 1..MaxStatements } }

\* Callees: hooks of the two tables, a hook of neither, and names that do
\* not follow the convention.
HookNames == { "useState", "useEffect", "useId", "useMemo", "useCustom", "use", "user" }

\* Lists a configuration adds or substitutes: a hook of neither table, and a
\* hook of the other table.
ConfiguredClientOnly == { {}, { "useCustom" }, { "useId" } }
ConfiguredServerSafe == { {}, { "useCustom" }, { "useState" } }

\* use-client-config.json
UseClientConfigs ==
    { [ defaultConfig EXCEPT !.clientOnlyHooks = co, !.serverSafeHooks = ss ] :
        co \in ConfiguredClientOnly, ss \in ConfiguredServerSafe }

HookConfigs ==
    { Config(r, DefaultAllowlist, 1, TRUE) : r \in Rules }
    \cup { [ useClientConfig |-> u ] @@ Config(r, DefaultAllowlist, 1, TRUE) :
             r \in Rules, u \in UseClientConfigs }

\* The options of a direct call of checkForClientAPIs.
NoOptions == [ o \in {} |-> {} ]

HookOptions ==
    { NoOptions }
    \cup { [ clientOnlyHooksExtended |-> co ] : co \in ConfiguredClientOnly }
    \cup { [ serverSafeHooksExtended |-> ss ] : ss \in ConfiguredServerSafe }
    \cup { [ clientOnlyHooksExtended |-> co, serverSafeHooksExtended |-> ss ] :
             co \in ConfiguredClientOnly, ss \in ConfiguredServerSafe }

HookCall(name) == Call(name, "Alias", "ExpressionStatement")

\* What the third specification starts from: a rule and the file it is run
\* over.
RuleInputs ==
    { [ rule |-> "consistent-use-client-placement", content |-> f ] : f \in PlacementFiles }
    \cup { [ rule |-> "no-server-only-in-client", content |-> Marking(b, m) ] :
             b \in ServerOnlyBodies \cup TypeOnlyBodies,
             m \in { "none", "double", "single", "line", "block" } }
    \cup { [ rule |-> r, content |-> Marking(b, m) ] :
             r \in { "no-server-only-in-client", "no-mixed-server-client-apis" },
             b \in MixedBodies, m \in { "none", "double", "line" } }
    \cup { [ rule |-> "enforce-use-client", content |-> File(b, << >>) ] :
             b \in TypeOnlyBodies }

\* ---------------------------------------------------------- the processes
NoRun == [ kind |-> "none" ]

OnDisk(content) ==
    [ exists |-> TRUE, readable |-> TRUE, mtime |-> 0, content |-> content, fixed |-> FALSE,
      faults |-> {} ]

NotOnDisk ==
    [ exists |-> FALSE, readable |-> FALSE, mtime |-> 0, content |-> Plain, fixed |-> FALSE,
      faults |-> {} ]

EmptyMap == [ p \in {} |-> FALSE ]

InitCaches ==
    /\ clientSideDependencyCache = EmptyMap
    /\ fileTimestamps = [ p \in {} |-> 0 ]
    /\ astCache = [ p \in {} |-> ErrorResult ]
    /\ events = 0
    /\ run = NoRun

\* A directory of three files, F importing M1, under one configuration.
Init ==
    /\ \E f \in EntryContents, m1 \in DependencyContents("M1"), m2 \in DependencyContents("M2") :
          files = [ p \in Paths |->
                      OnDisk(IF p = "F" THEN f ELSE IF p = "M1" THEN m1 ELSE m2) ]
    /\ config \in TraceConfigs
    /\ InitCaches

\* The test of utils.ts: two paths, the second in any state a file can be
\* in, and the functions called directly.
InitUtils ==
    /\ \E m1 \in { OnDisk(Plain), OnDisk(Marked), NotOnDisk,
                    [ OnDisk(Plain) EXCEPT !.readable = FALSE ] } :
          files = [ p \in Paths |->
                      IF p = "F" THEN OnDisk(Browser) ELSE IF p = "M1" THEN m1 ELSE NotOnDisk ]
    /\ config = Config("utils.test", EmptyAllowlist, 0, FALSE)
    /\ InitCaches

\* One file F on its own, and one of the rules that look at nothing else.
InitRules ==
    /\ \E input \in RuleInputs :
          /\ files = [ p \in Paths |-> IF p = "F" THEN OnDisk(input.content) ELSE NotOnDisk ]
          /\ config = Config(input.rule, DefaultAllowlist, 1, TRUE)
    /\ InitCaches

\* One file F that calls one function, under a rule and a
\* use-client-config.json.
InitHooks ==
    /\ \E name \in HookNames :
          files = [ p \in Paths |->
                      IF p = "F" THEN OnDisk(File(<< HookCall(name) >>, << >>)) ELSE NotOnDisk ]
    /\ config \in HookConfigs
    /\ InitCaches

\* A test calls checkForClientAPIs before anything is analysed.
CallCheckForClientAPIs(node, options) ==
    /\ run = NoRun
    /\ run' = [ kind |-> "check", node |-> node, options |-> options,
                ret |-> checkForClientAPIs(node, options) ]
    /\ UNCHANGED << files, clientSideDependencyCache, fileTimestamps, astCache, config, events >>

\* One file F on its own, and destructure-react-imports.
InitImports ==
    /\ \E f \in ImportFiles :
          files = [ p \in Paths |-> IF p = "F" THEN OnDisk(f) ELSE NotOnDisk ]
    /\ config = Config("destructure-react-imports", DefaultAllowlist, 1, TRUE)
    /\ InitCaches

\* One file F on its own.
InitSingle ==
    /\ \E f \in SingleFileContents :
          files = [ p \in Paths |-> IF p = "F" THEN OnDisk(f) ELSE NotOnDisk ]
    /\ config \in SingleFileConfigs
    /\ InitCaches

RunRule(fileName) ==
    CASE config.rule = "enforce-use-client" -> enforceRule(fileName)
      [] config.rule = "use-client-directive" -> enforceRule_ucd(fileName)
      [] config.rule = "consistent-use-client-placement" -> placementRule(fileName)
      [] config.rule = "no-server-only-in-client" -> noServerOnlyInClientRule(fileName)
      [] config.rule = "no-mixed-server-client-apis" -> noMixedServerClientAPIsRule(fileName)
      [] config.rule = "destructure-react-imports" -> destructureReactImportsRule(fileName)

\* The paths whose file is newer than the timestamp recorded for it.
Stale ==
    { p \in DOMAIN fileTimestamps : files[p].exists /\ files[p].mtime > fileTimestamps[p] }

\* The files ESLint is run over.
Linted == { "F", "M1" }

\* The shared maps and the record of the run after an analysis of fileName
\* that ended with the context c.
Analysed(fileName, c) ==
    /\ clientSideDependencyCache' = c.cache
    /\ fileTimestamps' = c.ts
    /\ astCache' = c.ast
    /\ run' = [ kind |-> "lint",
                file |-> fileName,
                content |-> files[fileName].content,
                fixed |-> files[fileName].fixed,
                stale |-> Stale,
                clientDependencies |-> c.clientDependencies,
                hasUseClientDirective |-> c.hasUseClientDirective,
                hasExports |-> c.hasExports,
                hasDirectClientAPIs |-> c.hasDirectClientAPIs,
                currentTraceDepth |-> c.currentTraceDepth,
                thrown |-> c.thrown,
                reports |-> c.reports,
                reads |-> c.reads,
                traced |-> c.traced,
                analysed |-> c.analysed ]

\* ESLint runs the configured rule over one file.
Lint(fileName) ==
    /\ files[fileName].exists /\ files[fileName].readable
    /\ Analysed(fileName, RunRule(fileName))
    /\ UNCHANGED << files, config, events >>

\* The fix of a missingUseClient report is applied to the file just
\* analysed: fixer.insertTextBefore(sourceCode.ast, "'use client';\n\n").
ApplyFix ==
    /\ run.kind = "lint"
    /\ events < MaxEvents
    /\ files[run.file].content = run.content
    /\ \E i \in 1..Len(run.reports) : run.reports[i].fix
    /\ files' = [ files EXCEPT ![run.file] =
                    [ @ EXCEPT !.content.body = << ExprStmt("use client", "'", TRUE) >> \o @,
                               !.mtime = events + 1,
                               !.fixed = TRUE ] ]
    /\ events' = events + 1
    /\ UNCHANGED << clientSideDependencyCache, fileTimestamps, astCache, config, run >>

\* What the fixes of the reports make of the file: the one fix the rules
\* offer is fixer.insertTextBefore(sourceCode.ast, "'use client';\n\n").
FixOutput(content, reports) ==
    IF \E i \in 1..Len(reports) : reports[i].fix
    THEN [ content EXCEPT !.body = << ExprStmt("use client", "'", TRUE) >> \o @ ]
    ELSE content

\* The fixes of the last analysis are applied, as eslint --fix and the
\* output of a RuleTester case do: the file is written when they change it.
Fix ==
    /\ run.kind = "lint"
    /\ files[run.file].content = run.content
    /\ LET output == FixOutput(run.content, run.reports) IN
       /\ output # run.content => events < MaxEvents
       /\ files' = IF output = run.content THEN files
                   ELSE [ files EXCEPT ![run.file] =
                            [ @ EXCEPT !.content = output, !.mtime = events + 1,
                                       !.fixed = TRUE ] ]
       /\ events' = IF output = run.content THEN events ELSE events + 1
       /\ run' = [ kind |-> "fix", file |-> run.file, content |-> run.content,
                   reports |-> run.reports, output |-> output ]
    /\ UNCHANGED << clientSideDependencyCache, fileTimestamps, astCache, config >>

\* File-system events belong to an editing session, between ESLint runs; the
\* unit test that calls the exported helper is not part of one.
Editing == events < MaxEvents /\ run.kind # "helper"

\* The file the session edits (the dependency D of the entry file F), and
\* what it is rewritten to.
Edited == { "M1" }
EditedContents == { Plain, Browser }

\* An imported file is rewritten.
Modify(p, content) ==
    /\ Editing
    /\ p \in Edited
    /\ content # files[p].content \/ ~files[p].exists
    /\ files' = [ files EXCEPT ![p] = [ exists |-> TRUE, readable |-> TRUE,
                                         mtime |-> events + 1, content |-> content,
                                         fixed |-> FALSE, faults |-> {} ] ]
    /\ events' = events + 1
    /\ UNCHANGED << clientSideDependencyCache, fileTimestamps, astCache, config, run >>

\* An imported file loses its read permission.
MakeUnreadable(p) ==
    /\ Editing
    /\ p \in Edited
    /\ files[p].exists /\ files[p].readable
    /\ files' = [ files EXCEPT ![p].readable = FALSE ]
    /\ events' = events + 1
    /\ UNCHANGED << clientSideDependencyCache, fileTimestamps, astCache, config, run >>

\* An imported file is deleted.
Remove(p) ==
    /\ Editing
    /\ p \in Edited
    /\ files[p].exists
    /\ files' = [ files EXCEPT ![p].exists = FALSE ]
    /\ events' = events + 1
    /\ UNCHANGED << clientSideDependencyCache, fileTimestamps, astCache, config, run >>

\* A test calls the exported helper before anything is analysed.
HelperPaths == { "client.tsx", "server.tsx" }

CallHelper(filePath, depth, visitedFiles) ==
    /\ run = NoRun
    /\ run' = [ kind |-> "helper", filePath |-> filePath, depth |-> depth,
                visitedFiles |-> visitedFiles,
                ret |-> analyzeModuleForClientDependencies_test(filePath, depth, visitedFiles) ]
    /\ UNCHANGED << files, clientSideDependencyCache, fileTimestamps, astCache, config, events >>

\* The paths the functions of utils.ts are called with directly.
UtilPaths == { "F", "M1" }

\* What the calls so far have left to know: sets[p] holds the value and the
\* file's state of the last setClientDependency(p, ...) since the caches
\* were cleared, failed the paths whose last getFileAST gave an error,
\* stored[p] the file's state at the last getFileAST(p) that read the file
\* and stored a record since the caches were cleared.
NoCalls ==
    [ sets |-> [ p \in UtilPaths |-> {} ], failed |-> {}, stored |-> [ p \in UtilPaths |-> {} ] ]

Calls ==
    IF run.kind = "call"
    THEN [ sets |-> run.sets, failed |-> run.failed, stored |-> run.stored ]
    ELSE NoCalls

\* The shared maps and the record of the call after op(path) gave r: found
\* is what the maps held for the path before the call, file the path's file
\* at the call, retry whether the last getFileAST of the path had failed.
Called(op, path, r, calls) ==
    /\ clientSideDependencyCache' = r.c.cache
    /\ fileTimestamps' = r.c.ts
    /\ astCache' = r.c.ast
    /\ run' = [ kind |-> "call", op |-> op, path |-> path, ret |-> r.ret,
                read |-> path \in r.c.reads,
                retry |-> path \in Calls.failed,
                file |-> files[path],
                found |-> [ ts |-> { fileTimestamps[q] : q \in DOMAIN fileTimestamps \cap { path } },
                            cache |-> { clientSideDependencyCache[q] :
                                          q \in DOMAIN clientSideDependencyCache \cap { path } },
                            ast |-> { astCache[q] : q \in DOMAIN astCache \cap { path } } ],
                sets |-> calls.sets,
                failed |-> calls.failed,
                stored |-> calls.stored ]
    /\ UNCHANGED << files, config, events >>

HasFileChanged(p) == Called("hasFileChanged", p, hasFileChanged(Program(p), p), Calls)

\* The call, r being what it gave.
GetFileAST_called(p, r) ==
    Called("getFileAST", p, r,
           [ Calls EXCEPT !.failed = IF r.ret.error = "true" THEN @ \cup { p } ELSE @ \ { p },
                          !.stored[p] = IF p \in r.c.reads THEN { files[p] } ELSE @ ])

GetFileAST(p) == GetFileAST_called(p, getFileAST(Program(p), p))

GetClientDependency(p) ==
    Called("getClientDependency", p, getClientDependency(Program(p), p), Calls)

SetClientDependency(p, v) ==
    Called("setClientDependency", p,
           [ c |-> setClientDependency(Program(p), p, v), ret |-> Undefined ],
           [ Calls EXCEPT !.sets[p] = { [ value |-> v, exists |-> files[p].exists,
                                            mtime |-> files[p].mtime ] } ])

ClearCaches ==
    Called("clearCaches", "F", [ c |-> clearCaches(Program("F")), ret |-> Undefined ],
           [ Calls EXCEPT !.sets = NoCalls.sets, !.stored = NoCalls.stored ])

\* An older copy of the file is put in its place (a checkout, a restored
\* backup): its modification time moves back.
Restore(p, content) ==
    /\ Editing
    /\ p \in Edited
    /\ files[p].exists /\ content # files[p].content
    /\ files' = [ files EXCEPT ![p] = [ exists |-> TRUE, readable |-> TRUE,
                                         mtime |-> 0 - (events + 1), content |-> content,
                                         fixed |-> FALSE, faults |-> {} ] ]
    /\ events' = events + 1
    /\ UNCHANGED << clientSideDependencyCache, fileTimestamps, astCache, config, run >>

\* The file gets its read permission back.
MakeReadable(p) ==
    /\ Editing
    /\ p \in Edited
    /\ files[p].exists /\ ~files[p].readable
    /\ files' = [ files EXCEPT ![p].readable = TRUE ]
    /\ events' = events + 1
    /\ UNCHANGED << clientSideDependencyCache, fileTimestamps, astCache, config, run >>

\* The places where a listener of enforce-use-client reaches the file system
\* (through resolveModulePath and the functions of utils.ts), each with the
\* outcomes it has besides the one the file's state gives.
FaultOutcomes ==
    ({ "resolveModulePath.existsSync", "hasFileChanged.existsSync", "getFileAST.existsSync",
       "getClientDependency.existsSync", "setClientDependency.existsSync" }
        \X { "throws", "fails" })
    \cup ({ "hasFileChanged.statSync", "setClientDependency.statSync",
            "getFileAST.readFileSync" } \X { "throws" })

FaultSets == { S \in SUBSET FaultOutcomes : S # {} /\ Cardinality(S) <= MaxFaults }

\* The file system starts to answer differently for an imported file.
Break(p, faults) ==
    /\ Editing
    /\ p \in Edited
    /\ files[p].exists
    /\ files' = [ files EXCEPT ![p].faults = faults ]
    /\ events' = events + 1
    /\ UNCHANGED << clientSideDependencyCache, fileTimestamps, astCache, config, run >>

\* A directory in which F imports, imports dynamically and re-exports M1,
\* under a rule that traces.
InitFaults ==
    /\ \E f \in EntryContents, m1 \in { Plain, Browser, Marked } :
          files = [ p \in Paths |->
                      OnDisk(IF p = "F" THEN f ELSE IF p = "M1" THEN m1 ELSE Plain) ]
    /\ config \in { Config(r, DefaultAllowlist, d, TRUE) : r \in Rules, d \in 1..2 }
    /\ InitCaches

Next ==
    \/ \E f \in Linted : Lint(f)
    \/ \E p \in Paths : \E content \in EditedContents : Modify(p, content)
    \/ \E p \in Paths : MakeUnreadable(p)
    \/ \E p \in Paths : Remove(p)
    \/ \E filePath \in HelperPaths, depth \in -1..2, visitedFiles \in SUBSET HelperPaths :
          CallHelper(filePath, depth, visitedFiles)

Spec == Init /\ [][Next]_vars

NextSingle ==
    \/ Lint("F")
    \/ ApplyFix

SpecSingle == InitSingle /\ [][NextSingle]_vars

NextUtils ==
    \/ \E p \in UtilPaths : HasFileChanged(p)
    \/ \E p \in UtilPaths : GetFileAST(p)
    \/ \E p \in UtilPaths : GetClientDependency(p)
    \/ \E p \in UtilPaths, v \in BOOLEAN : SetClientDependency(p, v)
    \/ ClearCaches
    \/ \E p \in Paths : \E content \in EditedContents : Modify(p, content)
    \/ \E p \in Paths : \E content \in EditedContents : Restore(p, content)
    \/ \E p \in Paths : MakeUnreadable(p)
    \/ \E p \in Paths : MakeReadable(p)
    \/ \E p \in Paths : Remove(p)

SpecUtils == InitUtils /\ [][NextUtils]_vars

NextRules ==
    \/ Lint("F")
    \/ Fix

SpecRules == InitRules /\ [][NextRules]_vars

NextFaults ==
    \/ \E f \in Linted : Lint(f)
    \/ \E p \in Paths : \E faults \in FaultSets : Break(p, faults)

SpecFaults == InitFaults /\ [][NextFaults]_vars

NextHooks ==
    \/ Lint("F")
    \/ \E name \in HookNames, options \in HookOptions :
          CallCheckForClientAPIs(HookCall(name), options)

SpecHooks == InitHooks /\ [][NextHooks]_vars

NextImports == Lint("F")

SpecImports == InitImports /\ [][NextImports]_vars

\* ------------------------------------------------------------ properties
\* The dependencies of the last analysis that are attributed to an import
\* of a traced module.
TracedDependencies ==
    { d \in Range(run.clientDependencies) :
        \/ StartsWith(d, "Import from client module: ")
        \/ StartsWith(d, "Dynamic import from client module: ")
        \/ StartsWith(d, "Re-export from client module: ") }

\* C1: in the import tracing of enforce-use-client, a dependency whose
\* modification time has advanced past the timestamp recorded for it is read
\* again, from its current content, before a verdict for it is used: no
\* verdict cached before the modification is used.
C1_StaleVerdictNeverUsed ==
    (run.kind = "lint" /\ config.rule = "enforce-use-client") =>
        \A i \in 1..Len(run.traced) :
            LET D == run.traced[i].path IN
            (D \in run.stale /\ files[D].readable) => D \in run.reads

\* C2: when the tracer gets an error for an imported file (the file cannot
\* be read, getFileAST returns an error record), the verdict of the trace is
\* true.
C2_ErrorVerdictIsTrue ==
    run.kind = "lint" =>
        \A i \in 1..Len(run.traced) :
            run.traced[i].from = "error" => run.traced[i].verdict = TRUE

\* The chain F -> M1 -> M2 in which only M2 has client indicators, F being
\* the file analysed.
Chain ==
    /\ run.kind = "lint" /\ run.file = "F"
    /\ config.traceDependencies
    /\ files["M1"].content = ImportsM2 /\ files["M2"].content = Browser
    /\ \A p \in Paths : files[p].exists /\ files[p].readable

\* C3: for the chain F -> M1 -> M2, the analysis of F with trace depth 2 or
\* more records a client dependency for the import of M1, and with trace
\* depth 1 it records none.
C3_TracingRecurses ==
    Chain => /\ config.traceDepth >= 2 => TracedDependencies # {}
             /\ config.traceDepth = 1 => TracedDependencies = {}

\* C4: with trace depth 0 no imported file is read or analysed and no
\* dependency is recorded for an import of a traced module, whatever the
\* imported file contains; and the exported helper returns false when called
\* with a depth of 0 or less.
C4_DepthZeroTracesNothing ==
    /\ (run.kind = "lint" /\ config.traceDepth = 0) =>
          /\ run.reads = {}
          /\ run.analysed = << >>
          /\ run.traced = << >>
          /\ TracedDependencies = {}
    /\ (run.kind = "helper" /\ run.depth <= 0) => run.ret = FALSE

\* F, which imports M1, has been analysed with trace depth 0 while M1 uses a
\* browser API and is recorded as a client module.
C4_Witness ==
    /\ run.kind = "lint" /\ run.file = "F"
    /\ config.traceDepth = 0 /\ config.traceDependencies
    /\ config.rule = "enforce-use-client"
    /\ files["M1"].content = Browser /\ files["M1"].readable /\ files["M1"].exists
    /\ "M1" \in DOMAIN clientSideDependencyCache
    /\ clientSideDependencyCache["M1"]

\* C5: within the analysis of one file no path is analysed twice, every
\* trace ends with a boolean, also for the cycle F -> M1 -> F; and the
\* exported helper returns false for a path already in the visited set.
C5_EachPathAnalysedOnce ==
    /\ run.kind = "lint" =>
          /\ \A i, j \in 1..Len(run.analysed) :
                run.analysed[i] = run.analysed[j] => i = j
          /\ \A i \in 1..Len(run.traced) : run.traced[i].verdict \in BOOLEAN
    /\ (run.kind = "helper" /\ run.filePath \in run.visitedFiles) => run.ret = FALSE

\* F has been analysed with trace depth 2 while M1 imports F back: M1 was
\* analysed once for the several imports of it.
C5_Witness ==
    /\ run.kind = "lint" /\ run.file = "F"
    /\ config.traceDepth = 2 /\ config.traceDependencies
    /\ files["M1"].content = ImportsF /\ files["M1"].readable /\ files["M1"].exists
    /\ run.analysed = << "M1" >>
    /\ Len(run.traced) = 1

\* allowlist[m] is true, or an array that contains e.
Allowlisted(m, e) ==
    /\ m \in DOMAIN config.allowlist
    /\ \/ config.allowlist[m].kind = "true"
       \/ config.allowlist[m].kind = "array" /\ e \in config.allowlist[m].names

\* The findings a rule attributes to the export e imported from module m.
Attributed(m, e) ==
    { "React hook: " \o e,
      "Unknown hook call: " \o e,
      "Import from client-only package: " \o m,
      "Import from client module: " \o m \o "." \o e }

\* C6: when allowlist[m] is true or an array containing e, no client
\* dependency is recorded for e imported from m: not for a call of e that the
\* client-only hook table lists, and not for the import when m is in the
\* client-only package table.
C6_AllowlistTakesPrecedence ==
    run.kind = "lint" =>
        \A i \in 1..Len(run.content.body) :
            LET n == run.content.body[i] IN
            n.type = "ImportDeclaration" =>
                \A k \in 1..Len(n.specifiers) :
                    Allowlisted(n.source, n.specifiers[k].imported) =>
                        Attributed(n.source, n.specifiers[k].imported)
                            \cap Range(run.clientDependencies) = {}

\* The number of diagnostics of the last analysis with the message id.
Count(messageId) ==
    Cardinality({ i \in 1..Len(run.reports) : run.reports[i].messageId = messageId })

HasDisableComment(content) ==
    \E i \in 1..Len(content.comments) :
        Includes(content.comments[i].value, "check-use-client-disable")

\* The file holds the statement 'use client'; or "use client";.
HasDirectiveStatement(content) ==
    \E i \in 1..Len(content.body) :
        /\ content.body[i].type = "ExpressionStatement"
        /\ content.body[i].value = "use client"
        /\ content.body[i].quote \in { "'", "\"" }

\* C7: at the end of a file, enforce-use-client reports one missingUseClient
\* and one detectedClientDep per recorded dependency when dependencies were
\* recorded, no directive was seen and the file has no
\* check-use-client-disable comment; it reports neither when the directive
\* statement is present.
C7_ReportsAtProgramExit ==
    (run.kind = "lint" /\ config.rule = "enforce-use-client") =>
        LET deps == run.clientDependencies IN
        /\ (Len(deps) > 0 /\ ~run.hasUseClientDirective /\ ~HasDisableComment(run.content)) =>
              /\ Count("missingUseClient") = 1
              /\ Count("detectedClientDep") = Len(deps)
              /\ \A k \in 1..Len(deps) :
                    \E i \in 1..Len(run.reports) :
                        /\ run.reports[i].messageId = "detectedClientDep"
                        /\ run.reports[i].dependency = deps[k]
                        /\ Cardinality({ j \in 1..Len(run.reports) :
                                            run.reports[j].dependency = deps[k] })
                           = Cardinality({ j \in 1..Len(deps) : deps[j] = deps[k] })
        /\ (run.hasUseClientDirective \/ HasDirectiveStatement(run.content)) =>
              Count("missingUseClient") = 0 /\ Count("detectedClientDep") = 0

\* enforce-use-client has analysed a file without directive that uses
\* document.title, and reported the two dependencies it recorded.
C7_Witness ==
    /\ run.kind = "lint" /\ config.rule = "enforce-use-client"
    /\ run.content = Marking(UsesDocument, "none")
    /\ Len(run.clientDependencies) = 2
    /\ ~run.hasUseClientDirective
    /\ Len(run.reports) = 3

\* C8: when the fix of missingUseClient has been applied, the same rule run
\* on the result sees the directive and reports no missingUseClient.
C8_FixedFileNeedsNoFix ==
    (run.kind = "lint" /\ run.fixed) =>
        run.hasUseClientDirective /\ Count("missingUseClient") = 0

\* The file states the directive in one of the four forms.
ClientMarked(content) ==
    \/ HasDirectiveStatement(content)
    \/ \E i \in 1..Len(content.comments) :
          /\ content.comments[i].style \in { "Line", "Block" }
          /\ Trim(content.comments[i].value) = "use client"

\* C9: a rule that tests whether a file is client-marked finds the directive
\* in each of its four forms: the statement with double quotes, the
\* statement with single quotes, the line comment and the block comment.
C9_AllFormsAreTheDirective ==
    (run.kind = "lint" /\ ClientMarked(run.content)) => run.hasUseClientDirective

\* Files whose only hook calls are server-safe hooks, with and without
\* exports, with and without a leading directive.
ServerSafeFiles ==
    { Marking(body, marking) :
        body \in { UsesId, UsesIdNoExport }, marking \in { "none", "single", "double" } }

\* C10: enforce-use-client reports nothing for a file whose only hook calls
\* are server-safe hooks and which has no other client indicator, with or
\* without the directive, with or without exports.
C10_ServerSafeHooksReportNothing ==
    (run.kind = "lint" /\ config.rule = "enforce-use-client"
        /\ run.content \in ServerSafeFiles) => run.reports = << >>

\* C11: a file that declares exports and whose only findings are indirect
\* (import-level) client dependencies, none of them a direct in-file client
\* API use, receives the sharedComponent diagnostic.
C11_IndirectOnlyIsSharedComponent ==
    (/\ run.kind = "lint"
     /\ run.hasExports
     /\ ~run.hasDirectClientAPIs
     /\ Len(run.clientDependencies) > 0
     /\ Range(run.clientDependencies) \subseteq TracedDependencies) =>
        Count("sharedComponent") = 1

\* The places of the 'use client' statements of a file, at any nesting.
Occurrences(content) ==
    { i \in 1..Len(content.body) :
        content.body[i].type = "ExpressionStatement" /\ content.body[i].value = "use client" }

\* The first occurrence in source order.
FirstOccurrence(content) ==
    CHOOSE i \in Occurrences(content) : \A j \in Occurrences(content) : i <= j

\* The last analysis was made by the rule.
LintedBy(rule) == run.kind = "lint" /\ config.rule = rule

\* C12: consistent-use-client-placement reports shouldBeFirst exactly when
\* the first 'use client' statement in source order is not the first
\* statement of the file, and then once; a directive that is the first
\* statement, with or without comments before it, is not reported.
C12_ShouldBeFirstOnceForMisplacedFirst ==
    LintedBy("consistent-use-client-placement") =>
        LET occ == Occurrences(run.content)
            inPlace == FirstOccurrence(run.content) = 1 /\ run.content.body[1].top
        IN  Count("shouldBeFirst") = IF occ # {} /\ ~inPlace THEN 1 ELSE 0

\* The rule has analysed: a comment, an import, "use client"; and the
\* directive again inside a function; it reported the first as misplaced.
C12_Witness ==
    /\ LintedBy("consistent-use-client-placement")
    /\ run.content.comments # << >>
    /\ Len(run.content.body) = 3
    /\ run.content.body[1].type = "ImportDeclaration"
    /\ Occurrences(run.content) = { 2, 3 }
    /\ run.reports[1].messageId = "shouldBeFirst"

\* C13: for a file with n >= 1 'use client' statements, at any nesting,
\* consistent-use-client-placement reports duplicateDirective n - 1 times,
\* whether or not it reported shouldBeFirst for the first of them.
C13_DuplicatesAreAllButTheFirst ==
    LintedBy("consistent-use-client-placement") =>
        LET n == Cardinality(Occurrences(run.content)) IN
        Count("duplicateDirective") = IF n >= 1 THEN n - 1 ELSE 0

\* Three directives, the first inside a function: one shouldBeFirst and two
\* duplicateDirective.
C13_Witness ==
    /\ LintedBy("consistent-use-client-placement")
    /\ Occurrences(run.content) = { 1, 2, 3 }
    /\ ~run.content.body[1].top
    /\ Count("shouldBeFirst") = 1
    /\ Count("duplicateDirective") = 2

C15_UnmarkedFileReportsNothing ==
    (LintedBy("no-server-only-in-client") /\ ~ClientMarked(run.content)) =>
        run.reports = << >>

\* The rule has analysed an unmarked file that reads process.env.NODE_ENV.
C15_Witness ==
    /\ LintedBy("no-server-only-in-client")
    /\ run.content = File(<< NestedMember("process", "env", "NODE_ENV") >>, << >>)
    /\ run.reports = << >>

\* The files whose imports are all type-only and that hold no other use of
\* a client or server capability.
TypeOnlyFiles ==
    { Marking(b, m) : b \in TypeOnlyBodies, m \in { "none", "double", "single", "line", "block" } }

\* C16: a type-only import (import type, or an inline type specifier) never
\* produces a client-dependency or server-only finding, also when its module
\* is in the table of client-only packages or in a table of server-only
\* APIs.
C16_TypeOnlyImportsAreIgnored ==
    (run.kind = "lint" /\ run.content \in TypeOnlyFiles) =>
        /\ run.clientDependencies = << >>
        /\ \A i \in 1..Len(run.reports) :
              run.reports[i].messageId \notin
                  { "missingUseClient", "detectedClientDep", "serverOnlyImportInClient",
                    "serverOnlyApiInClient", "nodeApiInClient" }

\* C17: a file whose only client indicator is one member access on a
\* browser global (document.title) gets exactly one client-dependency
\* finding from enforce-use-client, citing document, and so one
\* detectedClientDep beside missingUseClient.
C17_OneFindingPerMemberAccess ==
    (LintedBy("enforce-use-client") /\ run.content = Marking(UsesDocument, "none")) =>
        /\ Len(run.clientDependencies) = 1
        /\ Includes(run.clientDependencies[1], "document")
        /\ Count("missingUseClient") = 1
        /\ Count("detectedClientDep") = 1

\* C18: when the modification time of an existing file differs from the
\* timestamp recorded for it, later or earlier, hasFileChanged returns true,
\* getClientDependency returns null and removes the entry, and getFileAST
\* reads the file again instead of returning the cached record.
C18_AnyOtherTimestampInvalidates ==
    (/\ run.kind = "call"
     /\ run.file.exists
     /\ run.found.ts # {}
     /\ run.file.mtime \notin run.found.ts) =>
        /\ run.op = "hasFileChanged" => run.ret = TRUE
        /\ (run.op = "getClientDependency" /\ run.found.cache # {}) =>
              run.ret = {} /\ run.path \notin DOMAIN clientSideDependencyCache
        /\ (run.op = "getFileAST" /\ run.found.ast # {} /\ run.file.readable) =>
              run.read /\ run.ret = ScanResult(Text(run.file.content))

\* C19: for a missing or unreadable file getFileAST returns the error record
\* and stores nothing for the path; once the file can be read again, the
\* next getFileAST returns a result computed from the current content.
C19_FailureIsReturnedAndNotCached ==
    (run.kind = "call" /\ run.op = "getFileAST") =>
        /\ (~run.file.exists \/ ~run.file.readable) =>
              /\ run.ret = ErrorResult
              /\ { astCache[q] : q \in DOMAIN astCache \cap { run.path } } = run.found.ast
              /\ run.path \in DOMAIN clientSideDependencyCache <=> run.found.cache # {}
        /\ (run.file.exists /\ run.file.readable /\ run.retry) =>
              run.ret = ScanResult(Text(run.file.content))

\* C20: getClientDependency(p) returns the value of the last
\* setClientDependency(p, v) for as long as p's file is as it was then and
\* the caches have not been cleared, whatever was set or asked for other
\* paths; for a path not set since the caches were last cleared it returns
\* null.
C20_LastValueSetIsReturned ==
    (run.kind = "call" /\ run.op = "getClientDependency") =>
        LET set == run.sets[run.path] IN
        /\ set = {} => run.ret = {}
        /\ \A s \in set :
              (s.exists = run.file.exists /\ s.mtime = run.file.mtime) =>
                  run.ret = { s.value }

\* The value set for M1 is returned after another value was set for M1
\* before it and the opposite value for F after it.
C20_Witness ==
    /\ run.kind = "call" /\ run.op = "getClientDependency" /\ run.path = "M1"
    /\ \E s \in run.sets["M1"] :
          /\ s.value /\ s.exists = run.file.exists /\ s.mtime = run.file.mtime
          /\ run.file.mtime # 0
    /\ \E s \in run.sets["F"] : ~s.value
    /\ run.ret = { TRUE }

\* C21: a getFileAST(p) that finds the record an earlier getFileAST(p) stored,
\* the file being as it was then, returns that record and does not read the
\* file.
C21_UnmodifiedFileIsNotReadAgain ==
    (/\ run.kind = "call" /\ run.op = "getFileAST"
     /\ run.found.ast # {}
     /\ run.stored[run.path] = { run.file }) =>
        /\ ~run.read
        /\ { run.ret } = run.found.ast

\* Two ranges of text share a character.
Overlap(a, b) == a[1] < b[2] /\ b[1] < a[2]

\* C22: the text ranges of the fixes of one report of
\* destructure-react-imports (the replacement of the import, of each member
\* access and of each qualified type reference) are pairwise disjoint.
C22_FixRangesDoNotOverlap ==
    LintedBy("destructure-react-imports") =>
        \A r \in 1..Len(run.reports) :
            \A i, j \in 1..Len(run.reports[r].fixes) :
                i # j => ~Overlap(run.reports[r].fixes[i].range, run.reports[r].fixes[j].range)

\* C23: whatever the calls of the file system do for an imported file while
\* enforce-use-client traces it, no listener throws, and Program:exit runs:
\* it stores the file's verdict, the list of dependencies being non-empty.
C23_NoExceptionEscapes ==
    LintedBy("enforce-use-client") =>
        /\ ~run.thrown
        /\ run.file \in DOMAIN clientSideDependencyCache
        /\ clientSideDependencyCache[run.file] = (Len(run.clientDependencies) > 0)
        /\ Count("missingUseClient") = 1 <=>
              (Len(run.clientDependencies) > 0 /\ ~run.hasUseClientDirective)

\* An exception thrown while M1 was traced (by existsSync in
\* getClientDependency) left analyzeModuleForClientDependencies and was
\* caught by the listener.
C23_Witness ==
    /\ LintedBy("enforce-use-client")
    /\ run.file = "F"
    /\ \E i \in 1..Len(run.traced) : run.traced[i].from = "thrown"

\* What the three-way classification makes of a hook name under the two
\* tables in force.
HookVerdict(name, clientOnly, serverSafe) ==
    IF name \in clientOnly THEN { "React hook: " \o name }
    ELSE IF name \in serverSafe THEN {}
    ELSE { "Unknown hook call: " \o name }

\* The lists of use-client-config.json in force.
Configured == IF "useClientConfig" \in DOMAIN config THEN config.useClientConfig ELSE defaultConfig

\* C24: for a call of a function named like a hook, a name of the client-only
\* table is recorded as a client dependency even when the configuration lists
\* it as server-safe, otherwise a name of the server-safe table records
\* nothing, otherwise the unknown hook is recorded as a client dependency;
\* in both rules and in checkForClientAPIs.
C24_HookClassificationOrder ==
    /\ (run.kind = "lint" /\ config.rule \in Rules /\ isHookCall(run.content.body[1])) =>
          Range(run.clientDependencies) =
              HookVerdict(run.content.body[1].callee,
                          clientOnlyHooks \cup Configured.clientOnlyHooks,
                          serverSafeHooks \cup Configured.serverSafeHooks)
    /\ (run.kind = "check" /\ isHookCall(run.node)) =>
          (IF run.ret.isClient THEN { run.ret.dependency } ELSE {}) =
              HookVerdict(run.node.callee,
                          IF "clientOnlyHooksExtended" \in DOMAIN run.options
                          THEN run.options.clientOnlyHooksExtended ELSE clientOnlyHooks,
                          IF "serverSafeHooksExtended" \in DOMAIN run.options
                          THEN run.options.serverSafeHooksExtended ELSE serverSafeHooks)

\* useState, which the configuration lists as server-safe, is recorded as a
\* client-only hook by enforce-use-client.
C24_Witness ==
    /\ LintedBy("enforce-use-client")
    /\ run.content.body[1].callee = "useState"
    /\ "useState" \in Configured.serverSafeHooks
    /\ run.clientDependencies = << "React hook: useState" >>

\* C25: currentTraceDepth is what it was before, 0, after every call of
\* analyzeModuleForClientDependencies by an import, dynamic-import or
\* re-export visitor, whichever way the call ended, and so it is 0 at every
\* comparison with traceDepth and at the end of the file.
C25_TraceDepthIsRestored ==
    (run.kind = "lint" /\ config.rule \in Rules) =>
        /\ run.currentTraceDepth = 0
        /\ \A i \in 1..Len(run.traced) : run.traced[i].depth = 0

\* A call of analyzeModuleForClientDependencies under enforce-use-client
\* ended in its catch block (existsSync threw in setClientDependency) and
\* the file was linted to its end.
C25_Witness ==
    /\ LintedBy("enforce-use-client")
    /\ ~run.thrown
    /\ \E i \in 1..Len(run.traced) : run.traced[i].from = "caught"

\* The rules that report a use of a server-only or client-only API at the
\* position of the use.
ApiRules == { "no-server-only-in-client", "no-mixed-server-client-apis" }

\* C26: under no-server-only-in-client and no-mixed-server-client-apis one
\* use site gets one diagnostic, however many handlers reach it: no two
\* reports of an analysis are at the same position.
C26_OneDiagnosticPerUseSite ==
    (run.kind = "lint" /\ config.rule \in ApiRules) =>
        \A i, j \in 1..Len(run.reports) :
            run.reports[i].pos = run.reports[j].pos => i = j

\* The reports of the analysis that cite the module source.
ReportsCiting(source) ==
    { i \in 1..Len(run.reports) : run.reports[i].source = source }

ContentVerdict(p) ==
    LET ast == ScanResult(Text(files[p].content)) IN
    ast.hasUseClient = "true" \/ ast.hasClientCode = "true"

\* No file has been rewritten, removed or made unreadable.
Untouched ==
    events = 0 /\ \A p \in Paths : files[p].exists => (files[p].readable /\ files[p].mtime = 0)

\* C28: the verdict enforce-use-client uses for an imported file is what
\* tracing the file from its content yields, whether or not the file was
\* itself linted before in the same process.
C28_VerdictIndependentOfEarlierLint ==
    (LintedBy("enforce-use-client") /\ Untouched) =>
        \A i \in 1..Len(run.traced) :
            files[run.traced[i].path].exists =>
                run.traced[i].verdict = ContentVerdict(run.traced[i].path)

\* enforce-use-client run over fileName in a process whose shared caches
\* are empty.
enforceRule_fresh(fileName) ==
    LET content == files[fileName].content IN
    enforceRule_exit(
        VisitAll([ Program(fileName) EXCEPT !.cache = << >>, !.ts = << >>, !.ast = << >> ],
                 Traverse(content.body)),
        content.comments)

\* What the caches hold for the files other than the one analysed is what
\* their content gives, recorded at their modification time.
ValidEntries ==
    \A p \in DOMAIN clientSideDependencyCache \ { run.file } :
        /\ files[p].exists
        /\ clientSideDependencyCache[p] = ContentVerdict(p)
        /\ p \in DOMAIN fileTimestamps /\ fileTimestamps[p] = files[p].mtime

\* C29: for the same files and options, enforce-use-client records the same
\* list of client dependencies (and reports as many detectedClientDep)
\* whether the caches were empty or held valid entries for the imported
\* files when the analysis began.
C29_SameDependenciesWithAndWithoutCache ==
    (LintedBy("enforce-use-client") /\ Untouched /\ ValidEntries) =>
        run.clientDependencies = enforceRule_fresh(run.file).clientDependencies

\* C30: once hasFileChanged(p) has returned true for an existing file, a
\* call of hasFileChanged(p) that follows it with no modification in
\* between returns false, and so the readers that ask next are not told of
\* the change: getClientDependency(p) returns the value the cache holds and
\* getFileAST(p) the record astCache holds, without a read.
C30_ReportedChangeIsConsumed ==
    (/\ run.kind = "call" /\ run.op = "hasFileChanged" /\ run.ret = TRUE
     /\ run.file.exists /\ files[run.path] = run.file) =>
        LET p == run.path
            c == Program(p)
        IN  /\ ~hasFileChanged(c, p).ret
            /\ p \in DOMAIN clientSideDependencyCache =>
                  getClientDependency(c, p).ret = { clientSideDependencyCache[p] }
            /\ p \in DOMAIN astCache =>
                  /\ getFileAST(c, p).ret = astCache[p]
                  /\ p \notin getFileAST(c, p).c.reads

\* hasFileChanged has just reported the modification of a file for which a
\* verdict and a record were cached before the modification.
C30_Witness ==
    /\ run.kind = "call" /\ run.op = "hasFileChanged" /\ run.ret = TRUE
    /\ run.file.exists /\ files[run.path] = run.file
    /\ run.file.mtime > 0
    /\ run.found.ts # {} /\ run.found.cache # {} /\ run.found.ast # {}
====
